---- MODULE Spec2Model ----
(***************************************************************************)
(* A model of the weather-alert fetch pipeline:                            *)
(*   utils.py    with_retry, _log_error, write_last_run                    *)
(*   notify.py   _log_alert, send_weather_notification                     *)
(*   geocode.py  geocode                                                   *)
(*   weather.py  fetch_forecast, _parse_hourly, fetch_daily_forecast,      *)
(*               degrees_to_compass                                        *)
(*   rules.py    check_rain, check_wind, check_temperature,                *)
(*               check_feels_like, evaluate_rules                          *)
(*   cli.py      the per-day alerts of cmd_run_once                        *)
(*   history.py  date_range_for_years, _parse_daily                        *)
(*   analysis.py yearly_summary                                            *)
(*                                                                         *)
(* One call of one entry point is one behaviour: Init draws the entry      *)
(* point, its arguments and the environment (the unit of work's failures,  *)
(* the state of the log directory, the clock), the actions are the steps   *)
(* of the code.  Python values are encoded as follows:                     *)
(*   a nullable number is a sequence, None = <<>> and n = <<n>>;           *)
(*   a string is a sequence of text parts, "" = <<>>;                      *)
(*   a JSON member that may be absent, null or a string is a tagged record.*)
(***************************************************************************)
EXTENDS Integers, Sequences, FiniteSets

VARIABLES
    op,         \* the entry point that was called
    arg,        \* its arguments
    pc,         \* position in the code of the call
    now,        \* the local clock, in half hours (datetime.now())
    fsMode,     \* what the file system does to a log write
    failFirst,  \* the unit of work raises on its first failFirst invocations
    attempt,    \* with_retry: the loop variable
    calls,      \* with_retry: invocations of the unit so far
    sleeps,     \* with_retry: time.sleep calls so far
    events,     \* with_retry: the invocations and pauses, in order
    lastError,  \* with_retry: last_error
    data,       \* the value with_retry returned (the provider's payload)
    errorLog,   \* logs/weather_alert.log, a sequence of lines
    statusLog,  \* logs/last_run.txt, a sequence of lines
    alertLog,   \* the configured alert log, a sequence of lines
    logBefore,  \* the three logs as they were when the call started
    printed,    \* what the call printed, in order
    outcome,    \* how the call ended: still running, returned or raised
    result      \* the value the call returned

vars == <<op, arg, pc, now, fsMode, failFirst, attempt, calls, sleeps, events,
          lastError, data, errorLog, statusLog, alertLog, logBefore, printed,
          outcome, result>>

retryVars == <<attempt, calls, sleeps, events, lastError>>
logVars == <<errorLog, statusLog, alertLog>>
envVars == <<op, arg, now, fsMode, failFirst, logBefore>>

-----------------------------------------------------------------------------
(* Bounds *)

\* The unit of work raises on its first 0..MaxFail invocations.
MaxFail == 3
\* The clock reads 0..MaxClock half hours.
MaxClock == 5
\* A provider grid holds 0..MaxN hours (days).
MaxN == 2
\* forecast_hours is 0..MaxHours.
MaxHours == 3
\* A bearing is -MaxBearing..MaxBearing tenths of a degree (two turns either way).
MaxBearing == 7300
\* A forecast handed to the rules holds 0..MaxForecast hours.
MaxForecast == 4
\* date.today() is a day of the MaxClockYears years from FirstClockYear on.
FirstClockYear == 2023
MaxClockYears == 3
\* `years` is 1..MaxYears.
MaxYears == 5
\* An archive response, and a list of daily records, holds 0..MaxDays days.
MaxDays == 3
\* The trend is fitted to a list of 0..MaxYearly yearly entries.
MaxYearly == 3
\* The status log is written at most MaxWrites times.
MaxWrites == 3
\* run-once is run with the forecast windows 1..MaxWindow.
MaxWindow == 24
\* The provider's hourly grid holds MaxGrid hours.
MaxGrid == 6
\* lookahead_hours of the configuration is in 1..MaxLookahead.
MaxLookahead == 3

\* calls of the dashboard's fetch_all in one session
MaxCalls == 3

\* provider requests and clock steps in one session of the history dashboard
MaxRequests == 4
MaxCacheTicks == 3

-----------------------------------------------------------------------------
(* Program constants *)

MAX_ATTEMPTS == 3
RETRY_DELAY_SECONDS == 5

-----------------------------------------------------------------------------
(* Python values *)

None == <<>>
Some(n) == <<n>>
Val(v) == v[1]
\* Python's `v or 0` on a nullable number
OrZero(v) == IF v = None THEN 0 ELSE Val(v)

\* text parts of a formatted string
Lit(s) == [k |-> "lit", s |-> s]
Num(n) == [k |-> "num", n |-> n]
\* datetime.now().strftime("%Y-%m-%d %H:%M:%S")
Timestamp(t) == [k |-> "timestamp", t |-> t]

\* the builtin exception hierarchy, as far as the code raises or catches it
ExcParent(c) ==
    CASE c = "KeyError" -> "LookupError"
      [] c = "IndexError" -> "LookupError"
      [] c = "LookupError" -> "Exception"
      [] c = "TypeError" -> "Exception"
      [] c = "ValueError" -> "Exception"
      [] c = "RuntimeError" -> "Exception"
      [] c = "OSError" -> "Exception"
      [] c = "ConnectionError" -> "OSError"
      [] c = "Exception" -> "BaseException"
      [] c = "SystemExit" -> "BaseException"
      [] OTHER -> "object"

RECURSIVE IsA(_, _)
\* isinstance(exception of class c, cls)
IsA(c, cls) ==
    IF c = cls THEN TRUE
    ELSE IF c \in {"BaseException", "object"} THEN FALSE
    ELSE IsA(ExcParent(c), cls)

Running == [kind |-> "running"]
Returned == [kind |-> "return"]
Raised(exc, msg, cause) == [kind |-> "raise", exc |-> exc, msg |-> msg, cause |-> cause]

NoError == [exc |-> "none", text |-> <<>>]
\* the error the unit of work raises on its i-th invocation (requests raises
\* ConnectionError, HTTPError, ...: subclasses of OSError)
UnitError(i) == [exc |-> "ConnectionError", text |-> <<Lit("fail"), Num(i)>>]
\* str(e)
Str(e) == e.text

-----------------------------------------------------------------------------
(* The providers' JSON payloads *)

\* a JSON member of a geocoding result: absent, null or a string
JAbsent == [t |-> "absent"]
JNull == [t |-> "null"]
JStr(s) == [t |-> "str", s |-> s]

NameValues == {JAbsent, JNull, JStr(<<>>), JStr(<<Lit("Tokyo")>>)}
Admin1Values == {JAbsent, JNull, JStr(<<>>), JStr(<<Lit("Kanto")>>)}
CountryValues == {JAbsent, JNull, JStr(<<>>), JStr(<<Lit("Japan")>>)}

GeoResults ==
    [name : NameValues, admin1 : Admin1Values, country : CountryValues,
     latitude : {35}, longitude : {139}]

\* a second match, which geocode must ignore
SecondResult ==
    [name |-> JStr(<<Lit("Paris")>>), admin1 |-> JStr(<<Lit("Texas")>>),
     country |-> JStr(<<Lit("United States")>>), latitude |-> 33, longitude |-> -95]

\* {} | {"results": []} | {"results": [r]} | {"results": [r, r2]}
GeoPayloads ==
    {[has |-> FALSE, results |-> <<>>], [has |-> TRUE, results |-> <<>>]}
    \cup {[has |-> TRUE, results |-> <<r>>] : r \in GeoResults}
    \cup {[has |-> TRUE, results |-> <<r, SecondResult>>] : r \in GeoResults}

\* One hour of the hourly grid.  Temperatures in degrees C, probabilities and
\* humidity in percent, wind in km/h, bearings in tenths of a degree, snowfall
\* in cm, snow depth in tenths of a millimetre (the provider sends metres).
HourlyBase ==
    [temperature_2m |-> Some(10), apparent_temperature |-> Some(9),
     precipitation_probability |-> Some(60), windspeed_10m |-> Some(5),
     winddirection_10m |-> Some(900), weathercode |-> Some(0),
     relativehumidity_2m |-> Some(70), snowfall |-> Some(0), snow_depth |-> Some(0)]

\* the base hour, and the hours that differ from it in one member
HourlyRows ==
    {HourlyBase,
     [HourlyBase EXCEPT !.temperature_2m = None],
     [HourlyBase EXCEPT !.apparent_temperature = None],
     [HourlyBase EXCEPT !.precipitation_probability = None],
     [HourlyBase EXCEPT !.precipitation_probability = Some(0)],
     [HourlyBase EXCEPT !.windspeed_10m = None],
     [HourlyBase EXCEPT !.winddirection_10m = None],
     [HourlyBase EXCEPT !.winddirection_10m = Some(3599)],
     [HourlyBase EXCEPT !.snowfall = None],
     [HourlyBase EXCEPT !.snowfall = Some(2)],
     [HourlyBase EXCEPT !.snow_depth = None],
     [HourlyBase EXCEPT !.snow_depth = Some(1234)]}

\* the hour strings of a grid of n hours, 'YYYY-MM-DDTHH:00' from 00:00 on
GridTimes(n) == [i \in 1..n |-> i - 1]

Column(rows, f) == [i \in 1..Len(rows) |-> rows[i][f]]

\* {"hourly": {"time": [...], <member>: [...], ...}}: parallel arrays
HourlyGrid(rows) ==
    [time |-> GridTimes(Len(rows)),
     temperature_2m |-> Column(rows, "temperature_2m"),
     apparent_temperature |-> Column(rows, "apparent_temperature"),
     precipitation_probability |-> Column(rows, "precipitation_probability"),
     windspeed_10m |-> Column(rows, "windspeed_10m"),
     winddirection_10m |-> Column(rows, "winddirection_10m"),
     weathercode |-> Column(rows, "weathercode"),
     relativehumidity_2m |-> Column(rows, "relativehumidity_2m"),
     snowfall |-> Column(rows, "snowfall"),
     snow_depth |-> Column(rows, "snow_depth")]

SeqsUpTo(S, n) == UNION {[1..k -> S] : k \in 0..n}

\* {} | {"hourly": {...}}
HourlyPayloads ==
    {[has |-> FALSE]}
    \cup {[has |-> TRUE, hourly |-> HourlyGrid(rows)] : rows \in SeqsUpTo(HourlyRows, MaxN)}

\* One day of the daily grid, in the units of the hourly grid.
DailyBase ==
    [temperature_2m_max |-> Some(15), temperature_2m_min |-> Some(5),
     precipitation_sum |-> Some(0), precipitation_probability_max |-> Some(20),
     snowfall_sum |-> Some(0), snow_depth_max |-> Some(0),
     windspeed_10m_max |-> Some(10), winddirection_10m_dominant |-> Some(900)]

DailyRows ==
    {DailyBase,
     [DailyBase EXCEPT !.temperature_2m_min = None],
     [DailyBase EXCEPT !.precipitation_sum = None],
     [DailyBase EXCEPT !.precipitation_probability_max = None],
     [DailyBase EXCEPT !.snowfall_sum = None],
     [DailyBase EXCEPT !.snow_depth_max = None],
     [DailyBase EXCEPT !.snow_depth_max = Some(1234)],
     [DailyBase EXCEPT !.windspeed_10m_max = None],
     [DailyBase EXCEPT !.winddirection_10m_dominant = None]}

DailyGrid(rows) ==
    [time |-> GridTimes(Len(rows)),
     temperature_2m_max |-> Column(rows, "temperature_2m_max"),
     temperature_2m_min |-> Column(rows, "temperature_2m_min"),
     precipitation_sum |-> Column(rows, "precipitation_sum"),
     precipitation_probability_max |-> Column(rows, "precipitation_probability_max"),
     snowfall_sum |-> Column(rows, "snowfall_sum"),
     snow_depth_max |-> Column(rows, "snow_depth_max"),
     windspeed_10m_max |-> Column(rows, "windspeed_10m_max"),
     winddirection_10m_dominant |-> Column(rows, "winddirection_10m_dominant")]

\* {} | {"daily": {...}}
DailyPayloads ==
    {[has |-> FALSE]}
    \cup {[has |-> TRUE, daily |-> DailyGrid(rows)] : rows \in SeqsUpTo(DailyRows, MaxN)}

-----------------------------------------------------------------------------
(* utils.py *)

Labels == {"API call", "test"}
LogStates == {<<>>, << <<Lit("old line")>> >>}
FsModes == {"ok", "mkdir_fails", "open_fails"}

\* f"All {MAX_ATTEMPTS} attempts failed for {label}. Check your internet connection."
ExhaustedMsg(label) ==
    <<Lit("All "), Num(MAX_ATTEMPTS), Lit(" attempts failed for "), Lit(label),
      Lit(". Check your internet connection.")>>

\* f"[weather] {label} failed (attempt {attempt}/{MAX_ATTEMPTS}): {e}. Retrying in {RETRY_DELAY_SECONDS}s..."
RetryWarning(label, a, e) ==
    <<Lit("[weather] "), Lit(label), Lit(" failed (attempt "), Num(a), Lit("/"),
      Num(MAX_ATTEMPTS), Lit("): ")>> \o Str(e)
      \o <<Lit(". Retrying in "), Num(RETRY_DELAY_SECONDS), Lit("s...")>>

\* mutant of ErrorLine: the line is written without the error text
ErrorLineWithoutMessage(t, message) ==
    <<Timestamp(t), Lit(" [ERROR] "), Lit("API call"), Lit(" failed after "),
      Num(MAX_ATTEMPTS), Lit(" attempts")>>

\* f"{timestamp} [ERROR] API call failed after {MAX_ATTEMPTS} attempts: {message}\n"
ErrorLine(t, message) ==
    <<Timestamp(t), Lit(" [ERROR] "), Lit("API call"), Lit(" failed after "),
      Num(MAX_ATTEMPTS), Lit(" attempts: ")>> \o message

\* The file after _log_error(message): mkdir and open are both inside the try,
\* an OSError from either is swallowed and nothing is written.
_log_error(log, t, message, fs) ==
    IF fs = "ok" THEN Append(log, ErrorLine(t, message)) ELSE log

\* f"{timestamp}|{status}|{detail}\n"
StatusLine(t, status, detail) ==
    <<Timestamp(t), Lit("|"), Lit(status), Lit("|"), Lit(detail)>>

\* The file after write_last_run(status, detail): as _log_error.
write_last_run(log, t, status, detail, fs) ==
    IF fs = "ok" THEN Append(log, StatusLine(t, status, detail)) ELSE log

\* mutant of AttemptsRemain: off by one, a pause follows the last attempt too
AttemptsRemainOffByOne(a) == a <= MAX_ATTEMPTS

\* `if attempt < MAX_ATTEMPTS`: another attempt follows the failed one
AttemptsRemain(a) == a < MAX_ATTEMPTS

\* mutant of ExhaustedError: `from e` is dropped, the cause is lost
ExhaustedErrorNoCause(label, e) == Raised("RuntimeError", ExhaustedMsg(label), NoError)

\* raise RuntimeError(msg) from e
ExhaustedError(label, e) == Raised("RuntimeError", ExhaustedMsg(label), e)

\* the label with_retry is called with by each entry point
LabelOf(o, a) ==
    CASE o = "with_retry" -> a.label
      [] o = "geocode" -> "Geocoding API for place"
      [] o = "fetch_forecast" -> "Open-Meteo forecast API"
      [] o = "fetch_daily_forecast" -> "Open-Meteo daily forecast API"
      [] OTHER -> "API call"

\* an entry of the trace of a with_retry call: the unit returned v ("ok"),
\* the unit raised ("fail"), time.sleep ("sleep"), _log_error ("log"), the
\* final raise ("raise")
Ev(e, v) == [e |-> e, v |-> v]

\* what the unit of work returns when it succeeds
UnitValues(o) ==
    CASE o = "with_retry" -> {42, 99}
      [] o = "geocode" -> GeoPayloads
      [] o = "fetch_forecast" -> HourlyPayloads
      [] o = "fetch_daily_forecast" -> DailyPayloads
      [] OTHER -> {0}

\* The unit raises on its i-th invocation.
UnitRaises(i) == i <= failFirst

\* where the caller of with_retry goes on once it has returned
AfterRetry(o) == IF o = "with_retry" THEN "done" ELSE "parse"

\* with_retry, one pass of the loop body: the invocation of the unit and, when
\* it raises, the except clause up to the sleep or the final log.
Attempt ==
    /\ pc = "call"
    /\ calls' = calls + 1
    /\ \/ /\ ~UnitRaises(calls + 1)
          /\ \E v \in UnitValues(op) :
                /\ data' = v
                /\ result' = IF op = "with_retry" THEN v ELSE result
                /\ events' = Append(events, Ev("ok", v))
          /\ outcome' = IF op = "with_retry" THEN Returned ELSE outcome
          /\ pc' = AfterRetry(op)
          /\ UNCHANGED <<lastError, printed>>
       \/ /\ UnitRaises(calls + 1)
          /\ AttemptsRemain(attempt)
          /\ lastError' = UnitError(calls + 1)
          /\ events' = Append(events, Ev("fail", 0))
          /\ printed' = Append(printed, RetryWarning(LabelOf(op, arg), attempt, UnitError(calls + 1)))
          /\ pc' = "sleep"
          /\ UNCHANGED <<data, result, outcome>>
       \/ /\ UnitRaises(calls + 1)
          /\ ~AttemptsRemain(attempt)
          /\ lastError' = UnitError(calls + 1)
          /\ events' = Append(events, Ev("fail", 0))
          /\ printed' = Append(printed, <<Lit("[weather] ")>> \o ExhaustedMsg(LabelOf(op, arg)))
          /\ pc' = "exhausted"
          /\ UNCHANGED <<data, result, outcome>>
    /\ UNCHANGED <<attempt, sleeps, envVars, logVars>>

\* time.sleep(RETRY_DELAY_SECONDS), then the next pass of
\* `for attempt in range(1, MAX_ATTEMPTS + 1)`; a loop that ran out would fall
\* off the end of the function, which returns None
Sleep ==
    /\ pc = "sleep"
    /\ sleeps' = sleeps + 1
    /\ events' = Append(events, Ev("sleep", 0))
    /\ attempt' = attempt + 1
    /\ pc' = IF attempt + 1 <= MAX_ATTEMPTS THEN "call" ELSE "done"
    /\ outcome' = IF attempt + 1 <= MAX_ATTEMPTS THEN outcome ELSE Returned
    /\ UNCHANGED <<calls, lastError, data, envVars, logVars, printed, result>>

\* _log_error(str(e), log_path=log_path) in the last pass
LogError ==
    /\ pc = "exhausted"
    /\ errorLog' = _log_error(errorLog, now, Str(lastError), fsMode)
    /\ events' = Append(events, Ev("log", 0))
    /\ pc' = "raising"
    /\ UNCHANGED <<attempt, calls, sleeps, lastError, data, envVars, statusLog,
                   alertLog, printed, outcome, result>>

\* raise RuntimeError(msg) from e; no caller of with_retry in geocode.py or
\* weather.py catches it
RaiseExhausted ==
    /\ pc = "raising"
    /\ outcome' = ExhaustedError(LabelOf(op, arg), lastError)
    /\ events' = Append(events, Ev("raise", 0))
    /\ pc' = "done"
    /\ UNCHANGED <<attempt, calls, sleeps, lastError, data, envVars, logVars,
                   printed, result>>

\* write_last_run(status, detail)
WriteLastRun ==
    /\ op = "write_last_run"
    /\ pc = "start"
    /\ statusLog' = write_last_run(statusLog, now, arg.status, arg.detail, fsMode)
    /\ outcome' = Returned
    /\ pc' = "done"
    /\ UNCHANGED <<retryVars, data, envVars, errorLog, alertLog, printed, result>>

-----------------------------------------------------------------------------
(* notify.py *)

\* f"[{timestamp}] {message}\n"
AlertLine(t, message) == <<Lit("["), Timestamp(t), Lit("] ")>> \o message

\* print(f"[notify] Failed to write log: {e}")
LogFailedLine == <<Lit("[notify] Failed to write log: "), Lit("OSError")>>

\* _log_alert(message, config): the file, what is printed and how the call
\* ends.  log_path.parent.mkdir(...) runs before the try, so its OSError leaves
\* the function; the OSError of open() is caught and printed.
_log_alert(log, t, message, fs) ==
    CASE fs = "mkdir_fails" ->
            [log |-> log, printed |-> <<>>,
             outcome |-> Raised("OSError", <<Lit("mkdir")>>, NoError)]
      [] fs = "open_fails" ->
            [log |-> log, printed |-> <<LogFailedLine>>, outcome |-> Returned]
      [] OTHER ->
            [log |-> Append(log, AlertLine(t, message)), printed |-> <<>>,
             outcome |-> Returned]

\* _send_macos_notification prints one line for the osascript return code
NotifyLine(rc) ==
    IF rc # 0 THEN <<Lit("[notify] osascript failed: "), Lit("stderr")>>
    ELSE <<Lit("[notify] macOS notification sent.")>>

Messages == {<<Lit("some message")>>, <<Lit("Rain likely")>>}

\* _log_alert(message, config), called on its own
LogAlert ==
    /\ op = "_log_alert"
    /\ pc = "start"
    /\ LET r == _log_alert(alertLog, now, arg.message, fsMode) IN
          /\ alertLog' = r.log
          /\ printed' = printed \o r.printed
          /\ outcome' = r.outcome
    /\ pc' = "done"
    /\ UNCHANGED <<retryVars, data, envVars, errorLog, statusLog, result>>

\* send_weather_notification(..., config): nothing unless notifications.macos;
\* the notification, then the log line when notifications.log
SendWeatherNotification ==
    /\ op = "send_weather_notification"
    /\ pc = "start"
    /\ IF ~arg.macos
         THEN /\ outcome' = Returned
              /\ UNCHANGED <<alertLog, printed>>
         ELSE \E rc \in {0, 1} :
                IF arg.log
                  THEN LET r == _log_alert(alertLog, now,
                                           <<Lit("Notification sent: ")>> \o arg.message,
                                           fsMode) IN
                         /\ alertLog' = r.log
                         /\ printed' = (printed \o <<NotifyLine(rc)>>) \o r.printed
                         /\ outcome' = r.outcome
                  ELSE /\ printed' = printed \o <<NotifyLine(rc)>>
                       /\ outcome' = Returned
                       /\ UNCHANGED alertLog
    /\ pc' = "done"
    /\ UNCHANGED <<retryVars, data, envVars, errorLog, statusLog, result>>

-----------------------------------------------------------------------------
(* Initial states *)

InitRetryVars ==
    /\ attempt = 1
    /\ calls = 0
    /\ sleeps = 0
    /\ events = <<>>
    /\ lastError = NoError

\* the environment of a call: the clock, the log directory, the logs on disk
InitEnv(logStates, fsModes) ==
    /\ InitRetryVars
    /\ now \in 0..MaxClock
    /\ fsMode \in fsModes
    /\ errorLog \in logStates
    /\ statusLog \in logStates
    /\ alertLog \in logStates
    /\ logBefore = [error |-> errorLog, status |-> statusLog, alert |-> alertLog]
    /\ data = 0
    /\ printed = <<>>
    /\ outcome = Running
    /\ result = 0

InitWithRetry ==
    /\ op = "with_retry"
    /\ arg \in [label : Labels]
    /\ failFirst \in 0..MaxFail
    /\ pc = "call"

InitWriteLastRun ==
    /\ op = "write_last_run"
    /\ arg \in [status : {"OK", "ERROR"}, detail : {"No alerts", "API failed"}]
    /\ failFirst = 0
    /\ pc = "start"

InitLogAlert ==
    /\ op = "_log_alert"
    /\ arg \in [message : Messages]
    /\ failFirst = 0
    /\ pc = "start"

InitSendWeatherNotification ==
    /\ op = "send_weather_notification"
    /\ arg \in [message : Messages, macos : BOOLEAN, log : BOOLEAN]
    /\ failFirst = 0
    /\ pc = "start"

\* utils.py and notify.py: the retry executor and the three log writers
Init ==
    /\ InitEnv(LogStates, FsModes)
    /\ \/ InitWithRetry
       \/ InitWriteLastRun
       \/ InitLogAlert
       \/ InitSendWeatherNotification

Next ==
    \/ Attempt
    \/ Sleep
    \/ LogError
    \/ RaiseExhausted
    \/ WriteLastRun
    \/ LogAlert
    \/ SendWeatherNotification

Spec == Init /\ [][Next]_vars

-----------------------------------------------------------------------------
(* geocode.py *)

Places == {"Tokyo", "xyznonexistent"}

\* dict.get(key, default) on a member
Get(m, default) == IF m = JAbsent THEN default ELSE m
\* the truth value of result.get(key): a non-empty string
Truthy(m) == m.t = "str" /\ m.s # <<>>

Sep == Lit(", ")

RECURSIVE Join(_)
\* ", ".join(parts), the parts being strings
Join(parts) ==
    IF parts = <<>> THEN <<>>
    ELSE IF Len(parts) = 1 THEN parts[1]
    ELSE (parts[1] \o <<Sep>>) \o Join(Tail(parts))

\* name_parts: result.get("name", place), then admin1 and country when truthy
NameParts(r, place) ==
    (<<Get(r.name, JStr(<<Lit(place)>>))>>
       \o (IF Truthy(Get(r.admin1, JNull)) THEN <<r.admin1>> ELSE <<>>))
       \o (IF Truthy(Get(r.country, JNull)) THEN <<r.country>> ELSE <<>>)

\* print(f'[error] Location "{place}" not found. Try a more specific name.')
NotFoundLine(place) ==
    <<Lit("[error] Location "), Lit(place), Lit(" not found. Try a more specific name.")>>

\* raise SystemExit(1)
NotFoundError(place) == Raised("SystemExit", <<Num(1)>>, NoError)

\* geocode(place) from the payload on: how it ends, what it returns and prints
geocode(place, payload) ==
    IF ~payload.has \/ payload.results = <<>>
      THEN [outcome |-> NotFoundError(place), result |-> 0,
            printed |-> <<NotFoundLine(place)>>]
      ELSE LET r == payload.results[1]
               parts == NameParts(r, place)
           IN IF \E i \in 1..Len(parts) : parts[i].t # "str"
                THEN \* str.join on a None
                     [outcome |-> Raised("TypeError",
                                         <<Lit("sequence item 0: expected str instance, NoneType found")>>,
                                         NoError),
                      result |-> 0, printed |-> <<>>]
                ELSE [outcome |-> Returned,
                      result |-> [latitude |-> r.latitude, longitude |-> r.longitude,
                                  name |-> Join([i \in 1..Len(parts) |-> parts[i].s])],
                      printed |-> <<>>]

\* geocode, after with_retry has returned the payload
GeocodeResult ==
    /\ op = "geocode"
    /\ pc = "parse"
    /\ LET g == geocode(arg.place, data) IN
          /\ outcome' = g.outcome
          /\ result' = g.result
          /\ printed' = printed \o g.printed
    /\ pc' = "done"
    /\ UNCHANGED <<retryVars, data, envVars, logVars>>

-----------------------------------------------------------------------------
(* weather.py *)

\* round() of the rational n / d (d > 0) to an integer, ties to even.  The
\* code rounds binary floating point numbers; the model rounds the decimal
\* value they stand for.
Round(n, d) ==
    LET q == n \div d
        r == n % d
    IN IF 2 * r < d THEN q
       ELSE IF 2 * r > d THEN q + 1
       ELSE IF q % 2 = 0 THEN q ELSE q + 1

compass ==
    <<"N", "NNE", "NE", "ENE", "E", "ESE", "SE", "SSE",
      "S", "SSW", "SW", "WSW", "W", "WNW", "NW", "NNW">>

\* mutant of degrees_to_compass: the quotient is truncated instead of rounded
degrees_to_compassTruncating(tenths) == compass[((tenths \div 225) % 16) + 1]

\* degrees_to_compass(degrees), the bearing in tenths of a degree:
\* compass[round(degrees / 22.5) % 16]
degrees_to_compass(tenths) == compass[(Round(tenths, 225) % 16) + 1]

\* round((metres or 0) * 100, 1): tenths of a millimetre in, tenths of a
\* centimetre out
SnowDepthCm(v) == Round(OrZero(v), 10)

Range(f) == {f[i] : i \in DOMAIN f}
\* list.index(x): the first position of x
Index(f, x) == CHOOSE i \in DOMAIN f : f[i] = x /\ \A j \in DOMAIN f : f[j] = x => i <= j
Min(a, b) == IF a <= b THEN a ELSE b

\* datetime.now().strftime("%Y-%m-%dT%H:00"): the clock cut to the hour
HourOf(t) == t \div 2

\* the RuntimeError of a target hour that is not in the grid
TimeNotFoundError(lookup, first, last) ==
    Raised("RuntimeError",
           <<Lit("Requested time "), Num(lookup), Lit(" not found in forecast times. "),
             Lit("Available range: "), Num(first), Lit(" to "), Num(last),
             Lit("[error] Requested time is outside the available forecast window (7 days).")>>,
           NoError)

\* the dict appended for provider index i
HourlyRecord(h, i) ==
    [time |-> h.time[i],
     temperature |-> h.temperature_2m[i],
     feels_like |-> h.apparent_temperature[i],
     precipitation_probability |-> h.precipitation_probability[i],
     wind_speed |-> h.windspeed_10m[i],
     wind_direction |-> degrees_to_compass(Val(h.winddirection_10m[i])),
     weathercode |-> h.weathercode[i],
     humidity |-> h.relativehumidity_2m[i],
     snowfall |-> OrZero(h.snowfall[i]),
     snow_depth |-> SnowDepthCm(h.snow_depth[i])]

\* the last provider index of the slice: range(start, min(start + forecast_hours, len(times)))
SliceEnd(start, forecast_hours, n) == Min(start + forecast_hours - 1, n)

\* _parse_hourly(data, forecast_hours, target_time_str) at clock t
_parse_hourly(payload, forecast_hours, target, t) ==
    IF ~payload.has
      THEN [outcome |-> Raised("KeyError", <<Lit("hourly")>>, NoError), result |-> <<>>]
      ELSE
        LET h == payload.hourly
            times == h.time
            lookup == IF target # None THEN Val(target) ELSE HourOf(t)
        IN IF lookup \notin Range(times)
             THEN IF times = <<>>
                    THEN \* times[0] in the message of the handler
                         [outcome |-> Raised("IndexError", <<Lit("list index out of range")>>, NoError),
                          result |-> <<>>]
                    ELSE [outcome |-> TimeNotFoundError(lookup, times[1], times[Len(times)]),
                          result |-> <<>>]
             ELSE
               LET start == Index(times, lookup)
                   last == SliceEnd(start, forecast_hours, Len(times))
               IN IF \E i \in start..last : h.winddirection_10m[i] = None
                    THEN \* degrees_to_compass(None): None / 22.5
                         [outcome |-> Raised("TypeError",
                                             <<Lit("unsupported operand type(s) for /: 'NoneType' and 'float'")>>,
                                             NoError),
                          result |-> <<>>]
                    ELSE [outcome |-> Returned,
                          result |-> [k \in 1..(last - start + 1) |-> HourlyRecord(h, start + k - 1)]]

\* the dict appended for day i
DailyRecord(d, i) ==
    [date |-> d.time[i],
     temp_max |-> d.temperature_2m_max[i],
     temp_min |-> d.temperature_2m_min[i],
     precip_mm |-> OrZero(d.precipitation_sum[i]),
     rain_probability |-> OrZero(d.precipitation_probability_max[i]),
     snowfall_cm |-> OrZero(d.snowfall_sum[i]),
     snow_depth_cm |-> SnowDepthCm(d.snow_depth_max[i]),
     wind_max |-> d.windspeed_10m_max[i],
     wind_direction |-> degrees_to_compass(OrZero(d.winddirection_10m_dominant[i]))]

\* fetch_daily_forecast from the payload on
ParseDailyPayload(payload) ==
    IF ~payload.has
      THEN [outcome |-> Raised("KeyError", <<Lit("daily")>>, NoError), result |-> <<>>]
      ELSE [outcome |-> Returned,
            result |-> [i \in 1..Len(payload.daily.time) |-> DailyRecord(payload.daily, i)]]

\* fetch_forecast, after with_retry has returned the payload
ParseHourly ==
    /\ op = "fetch_forecast"
    /\ pc = "parse"
    /\ LET r == _parse_hourly(data, arg.forecast_hours, arg.target_time_str, now) IN
          /\ outcome' = r.outcome
          /\ result' = r.result
    /\ pc' = "done"
    /\ UNCHANGED <<retryVars, data, envVars, logVars, printed>>

\* fetch_daily_forecast, after with_retry has returned the payload
ParseDaily ==
    /\ op = "fetch_daily_forecast"
    /\ pc = "parse"
    /\ LET r == ParseDailyPayload(data) IN
          /\ outcome' = r.outcome
          /\ result' = r.result
    /\ pc' = "done"
    /\ UNCHANGED <<retryVars, data, envVars, logVars, printed>>

-----------------------------------------------------------------------------
(* The geocoder and the forecast fetcher as specifications *)

InitGeocode ==
    /\ InitEnv({<<>>}, FsModes)
    /\ op = "geocode"
    /\ arg \in [place : Places]
    /\ failFirst \in 0..MaxFail
    /\ pc = "call"

NextGeocode ==
    \/ Attempt
    \/ Sleep
    \/ LogError
    \/ RaiseExhausted
    \/ GeocodeResult

SpecGeocode == InitGeocode /\ [][NextGeocode]_vars

Targets == {None} \cup {Some(h) : h \in -1..MaxN}

\* the clock is read only when no target hour is given
InitFetchForecast ==
    /\ op = "fetch_forecast"
    /\ arg \in [forecast_hours : 0..MaxHours, target_time_str : Targets]
    /\ (arg.target_time_str # None => now = 0)

InitFetchDaily ==
    /\ op = "fetch_daily_forecast"
    /\ arg \in [forecast_days : 1..MaxN]
    /\ now = 0

\* (the log write of an exhausted with_retry is explored under Spec)
InitForecast ==
    /\ InitEnv({<<>>}, {"ok"})
    /\ \/ InitFetchForecast
       \/ InitFetchDaily
    /\ failFirst \in 0..MaxFail
    /\ pc = "call"

NextForecast ==
    \/ Attempt
    \/ Sleep
    \/ LogError
    \/ RaiseExhausted
    \/ ParseHourly
    \/ ParseDaily

SpecForecast == InitForecast /\ [][NextForecast]_vars

-----------------------------------------------------------------------------
(* rules.py *)

TEMPERATURE_LOOKAHEAD_HOURS == 3

Max(a, b) == IF a >= b THEN a ELSE b

\* list[:k]: the first k items, all of them when k > len, and for a negative
\* k all but the last -k
SliceTo(list, k) ==
    SubSeq(list, 1, IF k >= 0 THEN Min(k, Len(list)) ELSE Max(Len(list) + k, 0))

\* the first of the positions at which the body of a `for` loop returns, 0
\* when it returns at none and the loop runs to the end
FirstOf(hits) ==
    IF hits = {} THEN 0 ELSE CHOOSE i \in hits : \A j \in hits : i <= j

\* f"Rain likely: {prob}% chance at {hour['time']} (threshold: {threshold}%)"
RainMessage(prob, time, threshold) ==
    <<Lit("Rain likely: "), Num(prob), Lit("% chance at "), Num(time),
      Lit(" (threshold: "), Num(threshold), Lit("%)")>>

\* f"High wind: {speed} km/h at {next_hour['time']} (threshold: {threshold} km/h)"
WindMessage(speed, time, threshold) ==
    <<Lit("High wind: "), Num(speed), Lit(" km/h at "), Num(time),
      Lit(" (threshold: "), Num(threshold), Lit(" km/h)")>>

\* f"Cold temperature: {temp} C at {hour['time']} (min temperature: {min_temp} C)"
TemperatureMessage(temp, time, min_temp) ==
    <<Lit("Cold temperature: "), Num(temp), Lit(" C at "), Num(time),
      Lit(" (min temperature: "), Num(min_temp), Lit(" C)")>>

\* f"Feels very cold: {feels} C at {hour['time']} (min feels-like: {min_feels_like} C)"
FeelsLikeMessage(feels, time, min_feels_like) ==
    <<Lit("Feels very cold: "), Num(feels), Lit(" C at "), Num(time),
      Lit(" (min feels-like: "), Num(min_feels_like), Lit(" C)")>>

\* check_rain(forecast, threshold, lookahead_hours): None or the message
check_rain(forecast, threshold, lookahead_hours) ==
    LET window == SliceTo(forecast, lookahead_hours)
        Triggers(hour) == OrZero(hour.precipitation_probability) >= threshold
        i == FirstOf({j \in 1..Len(window) : Triggers(window[j])})
    IN IF i = 0 THEN None
       ELSE Some(RainMessage(OrZero(window[i].precipitation_probability),
                             window[i].time, threshold))

\* mutant of check_wind: the comparison is strict
check_windStrict(forecast, threshold) ==
    IF forecast = <<>> THEN None
    ELSE LET next_hour == forecast[1]
             speed == OrZero(next_hour.wind_speed)
         IN IF speed > threshold
              THEN Some(WindMessage(speed, next_hour.time, threshold))
              ELSE None

\* check_wind(forecast, threshold)
check_wind(forecast, threshold) ==
    IF forecast = <<>> THEN None
    ELSE LET next_hour == forecast[1]
             speed == OrZero(next_hour.wind_speed)
         IN IF speed >= threshold
              THEN Some(WindMessage(speed, next_hour.time, threshold))
              ELSE None

\* mutant of check_temperature: the comparison is inclusive
check_temperatureInclusive(forecast, min_temp) ==
    LET window == SliceTo(forecast, TEMPERATURE_LOOKAHEAD_HOURS)
        Triggers(hour) == hour.temperature # None /\ Val(hour.temperature) <= min_temp
        i == FirstOf({j \in 1..Len(window) : Triggers(window[j])})
    IN IF i = 0 THEN None
       ELSE Some(TemperatureMessage(Val(window[i].temperature), window[i].time, min_temp))

\* check_temperature(forecast, min_temp)
check_temperature(forecast, min_temp) ==
    LET window == SliceTo(forecast, TEMPERATURE_LOOKAHEAD_HOURS)
        Triggers(hour) == hour.temperature # None /\ Val(hour.temperature) < min_temp
        i == FirstOf({j \in 1..Len(window) : Triggers(window[j])})
    IN IF i = 0 THEN None
       ELSE Some(TemperatureMessage(Val(window[i].temperature), window[i].time, min_temp))

\* check_feels_like(forecast, min_feels_like)
check_feels_like(forecast, min_feels_like) ==
    LET window == SliceTo(forecast, TEMPERATURE_LOOKAHEAD_HOURS)
        Triggers(hour) == hour.feels_like # None /\ Val(hour.feels_like) < min_feels_like
        i == FirstOf({j \in 1..Len(window) : Triggers(window[j])})
    IN IF i = 0 THEN None
       ELSE Some(FeelsLikeMessage(Val(window[i].feels_like), window[i].time, min_feels_like))

\* [alert for alert in checks if alert is not None]
NotNone(checks) ==
    LET kept == SelectSeq(checks, LAMBDA c : c # None)
    IN [i \in 1..Len(kept) |-> Val(kept[i])]

\* mutant of evaluate_rules: the wind check is listed after the temperature check
evaluate_rulesReordered(forecast, config) ==
    LET alerts_config == config.alerts
        checks ==
          <<check_rain(forecast, alerts_config.rain_probability_threshold,
                       alerts_config.lookahead_hours),
            check_temperature(forecast, alerts_config.temperature_min),
            check_wind(forecast, alerts_config.wind_speed_threshold),
            check_feels_like(forecast, alerts_config.feels_like_min)>>
    IN NotNone(checks)

\* evaluate_rules(forecast, config)
evaluate_rules(forecast, config) ==
    LET alerts_config == config.alerts
        checks ==
          <<check_rain(forecast, alerts_config.rain_probability_threshold,
                       alerts_config.lookahead_hours),
            check_wind(forecast, alerts_config.wind_speed_threshold),
            check_temperature(forecast, alerts_config.temperature_min),
            check_feels_like(forecast, alerts_config.feels_like_min)>>
    IN NotNone(checks)

-----------------------------------------------------------------------------
(* Claims about the retry executor and the log writers (Spec) *)

CallEvents == {i \in 1..Len(events) : events[i].e \in {"ok", "fail"}}
RetryOver == events # <<>> /\ pc \notin {"call", "sleep", "exhausted", "raising"}

\* C1: a unit that raises on its first k invocations and then succeeds is
\* invoked k+1 times with k pauses when k <= 2, and with_retry returns its
\* value; a unit that always raises is invoked 3 times with 2 pauses; every
\* pause stands strictly between a failed invocation and the next invocation
\* (none after the last attempt); nothing is invoked after a success.
C1_RetryAttemptsAndPauses ==
    /\ (RetryOver /\ failFirst <= 2) =>
          /\ calls = failFirst + 1
          /\ sleeps = failFirst
          /\ events[Len(events)].e = "ok"
          /\ (op = "with_retry" =>
                outcome = Returned /\ result = events[Len(events)].v)
    /\ (RetryOver /\ failFirst >= 3) => (calls = 3 /\ sleeps = 2)
    /\ Cardinality(CallEvents) = calls
    /\ Cardinality({i \in 1..Len(events) : events[i].e = "sleep"}) = sleeps
    /\ \A i \in 1..Len(events) :
          events[i].e = "sleep" =>
            /\ i > 1
            /\ events[i - 1].e = "fail"
            /\ (i < Len(events) => events[i + 1].e \in {"ok", "fail"})
            /\ (RetryOver => i < Len(events))
    /\ \A i \in CallEvents : events[i].e = "ok" => \A j \in CallEvents : j <= i

C1_Witness ==
    /\ op = "with_retry" /\ pc = "done" /\ failFirst = 2
    /\ calls = 3 /\ sleeps = 2 /\ outcome = Returned

\* C2: when all 3 attempts raise, with_retry never returns a value; it raises
\* a RuntimeError whose message starts "All 3 attempts failed" and whose
\* cause is the error of the last (third) attempt.
C2_ExhaustedRaises ==
    failFirst >= 3 =>
      /\ outcome # Returned
      /\ (pc = "done" =>
            /\ outcome.kind = "raise"
            /\ IsA(outcome.exc, "RuntimeError")
            /\ SubSeq(outcome.msg, 1, 3) =
                  <<Lit("All "), Num(3), Lit(" attempts failed for ")>>
            /\ outcome.cause = UnitError(3)
            /\ outcome.cause = lastError)

C2_Witness ==
    /\ op = "with_retry" /\ pc = "done" /\ failFirst >= 3
    /\ outcome.kind = "raise" /\ calls = 3

Parts(line) == {line[i] : i \in 1..Len(line)}
HasTimestamp(line) == \E p \in Parts(line) : p.k = "timestamp"
\* the line holds every part of the text, in order and adjacent
HasText(line, text) ==
    \E i \in 0..(Len(line) - Len(text)) : SubSeq(line, i + 1, i + Len(text)) = text

\* C3 as stated: every exhausted call leaves exactly one new record in the
\* error log by the time the error is raised, holding a timestamp, the call's
\* label and the final error text; a successful call leaves none.
C3_OneLabelledRecordPerExhaustedCall ==
    /\ (pc = "done" /\ outcome.kind = "raise" /\ op = "with_retry") =>
          /\ Len(errorLog) = Len(logBefore.error) + 1
          /\ SubSeq(errorLog, 1, Len(logBefore.error)) = logBefore.error
          /\ HasTimestamp(errorLog[Len(errorLog)])
          /\ Lit(arg.label) \in Parts(errorLog[Len(errorLog)])
          /\ HasText(errorLog[Len(errorLog)], Str(lastError))
    /\ (pc = "done" /\ outcome = Returned) => errorLog = logBefore.error

\* C3 amended: an exhausted call makes one append to the error log, before
\* the error is raised: when the write succeeds exactly one record is added,
\* holding a timestamp, the attempt count and the final error text (the label
\* is not written: the line names the call by the fixed text "API call");
\* when the write fails with an OSError nothing is added; before exhaustion,
\* and in a call that succeeds on any attempt, nothing is added.
C3_OneRecordPerLoggedExhaustion ==
    /\ (pc \in {"call", "sleep", "exhausted"} \/ outcome = Returned) =>
          errorLog = logBefore.error
    /\ (pc = "raising" \/ (pc = "done" /\ outcome.kind = "raise")) =>
          IF fsMode = "ok"
            THEN /\ Len(errorLog) = Len(logBefore.error) + 1
                 /\ SubSeq(errorLog, 1, Len(logBefore.error)) = logBefore.error
                 /\ LET line == errorLog[Len(errorLog)] IN
                       /\ line[1] = Timestamp(now)
                       /\ Num(3) \in Parts(line)
                       /\ HasText(line, Str(lastError))
                       /\ (Lit(LabelOf(op, arg)) \in Parts(line)
                             => LabelOf(op, arg) = "API call")
            ELSE errorLog = logBefore.error

C3_Witness ==
    /\ op = "with_retry" /\ pc = "done" /\ outcome.kind = "raise"
    /\ fsMode = "ok" /\ arg.label = "test"
    /\ Len(errorLog) = Len(logBefore.error) + 1

\* C4: an OSError of a log write (creating the directory, opening or
\* appending the file) never leaves _log_error, write_last_run or _log_alert:
\* the log writers and the notification return, with_retry still raises its
\* RuntimeError.
C4_LogWriteFailureNeverPropagates ==
    pc = "done" =>
      /\ (outcome.kind = "raise" => ~IsA(outcome.exc, "OSError"))
      /\ (op \in {"write_last_run", "_log_alert", "send_weather_notification"}
            => outcome = Returned)
      /\ (op = "with_retry" /\ failFirst >= 3 =>
            outcome.kind = "raise" /\ outcome.exc = "RuntimeError")

-----------------------------------------------------------------------------
(* Claims about the geocoder (SpecGeocode) *)

\* with_retry has returned the provider's payload
RetrySucceeded ==
    /\ pc \in {"parse", "done"}
    /\ events # <<>>
    /\ events[Len(events)].e = "ok"
OkCalls == {i \in 1..Len(events) : events[i].e = "ok"}

\* C5: when the search succeeds but the response has no results key or an
\* empty results array, geocode raises an error that is a ValueError, is not
\* SystemExit, is not the RuntimeError of a network failure, and whose message
\* holds the place name.
C5_NoResultsRaisesLocationNotFound ==
    (op = "geocode" /\ pc = "done" /\ RetrySucceeded
       /\ (~data.has \/ data.results = <<>>)) =>
      /\ outcome.kind = "raise"
      /\ IsA(outcome.exc, "ValueError")
      /\ ~IsA(outcome.exc, "SystemExit")
      /\ ~IsA(outcome.exc, "RuntimeError")
      /\ Lit(arg.place) \in Parts(outcome.msg)

\* the non-empty strings among the members, in order
NonEmptyStrings(members) ==
    LET kept == SelectSeq(members, Truthy) IN [i \in 1..Len(kept) |-> kept[i].s]

\* C6: the display name is exactly the non-empty parts among name, admin1 and
\* country of the first result, in that order, joined with ", " (null, absent
\* and empty parts skipped), so it holds no "None", neither starts nor ends
\* with ", " and has no empty segment; latitude and longitude are those of the
\* first result.
C6_DisplayNameJoinsNonEmptyParts ==
    (op = "geocode" /\ pc = "done" /\ RetrySucceeded
       /\ data.has /\ data.results # <<>>) =>
      LET r == data.results[1] IN
        /\ outcome = Returned
        /\ result.name = Join(NonEmptyStrings(<<r.name, r.admin1, r.country>>))
        /\ Lit("None") \notin Parts(result.name)
        /\ (result.name # <<>> =>
              result.name[1] # Sep /\ result.name[Len(result.name)] # Sep)
        /\ \A i \in 1..(Len(result.name) - 1) :
              ~(result.name[i] = Sep /\ result.name[i + 1] = Sep)
        /\ result.latitude = r.latitude
        /\ result.longitude = r.longitude

-----------------------------------------------------------------------------
(* Claims about the forecast fetcher (SpecForecast) *)

\* the hour looked up: the caller's, or the current local hour
LookupHour ==
    IF arg.target_time_str # None THEN Val(arg.target_time_str) ELSE now \div 2

HourlyParsed ==
    op = "fetch_forecast" /\ pc = "done" /\ RetrySucceeded /\ data.has

\* C7: whenever the hour looked up is not in the provider's time array,
\* fetch_forecast raises the RuntimeError "... not found in forecast times",
\* after exactly one successful provider call and with no further attempt.
C7_TargetNotInGridRaisesTimeOutOfRange ==
    (HourlyParsed /\ LookupHour \notin Range(data.hourly.time)) =>
      /\ outcome.kind = "raise"
      /\ IsA(outcome.exc, "RuntimeError")
      /\ Lit(" not found in forecast times. ") \in Parts(outcome.msg)
      /\ Cardinality(OkCalls) = 1
      /\ events[Len(events)].e = "ok"

\* C8: a payload without the hourly key (fetch_forecast) or without the daily
\* key (fetch_daily_forecast) raises a RuntimeError whose message is
\* "Unexpected API response structure", after one successful provider call
\* and with no further attempt.
C8_MissingKeyRaisesMalformedResponse ==
    (op \in {"fetch_forecast", "fetch_daily_forecast"} /\ pc = "done"
       /\ RetrySucceeded /\ ~data.has) =>
      /\ outcome.kind = "raise"
      /\ IsA(outcome.exc, "RuntimeError")
      /\ Lit("Unexpected API response structure") \in Parts(outcome.msg)
      /\ Cardinality(OkCalls) = 1
      /\ events[Len(events)].e = "ok"

\* C9: when the hour looked up is at (0-based) index s of a time array of
\* length n, fetch_forecast returns min(forecast_hours, n - s) records, the
\* k-th built from provider index s + k: a contiguous slice in provider order,
\* one hour apart; asking for more hours than remain is not an error.
C9_SliceOfRemainingHours ==
    (HourlyParsed /\ LookupHour \in Range(data.hourly.time)) =>
      LET h == data.hourly
          s == Index(h.time, LookupHour) - 1
          n == Len(h.time)
      IN /\ outcome = Returned
         /\ Len(result) = Min(arg.forecast_hours, n - s)
         /\ \A k \in 1..Len(result) :
              /\ result[k].time = h.time[s + k]
              /\ result[k].temperature = h.temperature_2m[s + k]
              /\ result[k].feels_like = h.apparent_temperature[s + k]
              /\ result[k].wind_speed = h.windspeed_10m[s + k]
              /\ result[k].humidity = h.relativehumidity_2m[s + k]
         /\ \A k \in 1..(Len(result) - 1) : result[k + 1].time = result[k].time + 1

\* C10: in every record of the hourly parse precipitation_probability is the
\* provider's value, null included; snowfall is the provider's value or 0 for
\* null; snow_depth is metres times 100 rounded to one decimal, null taken as
\* 0; a null wind bearing is taken as 0 (north) instead of raising.
C10_NullPolicyPerField ==
    (HourlyParsed /\ LookupHour \in Range(data.hourly.time)) =>
      LET h == data.hourly
          s == Index(h.time, LookupHour) - 1
      IN /\ outcome = Returned
         /\ \A k \in 1..Len(result) :
              /\ result[k].precipitation_probability = h.precipitation_probability[s + k]
              /\ result[k].snowfall =
                   (IF h.snowfall[s + k] = None THEN 0 ELSE Val(h.snowfall[s + k]))
              /\ result[k].snow_depth =
                   (IF h.snow_depth[s + k] = None THEN 0
                    ELSE Round(Val(h.snow_depth[s + k]), 10))
              /\ result[k].wind_direction =
                   (IF h.winddirection_10m[s + k] = None THEN "N"
                    ELSE degrees_to_compass(Val(h.winddirection_10m[s + k])))

-----------------------------------------------------------------------------
(* The compass conversion as a specification *)

InitCompass ==
    /\ InitEnv({<<>>}, {"ok"})
    /\ now = 0
    /\ op = "degrees_to_compass"
    /\ arg \in [degrees : (-MaxBearing)..MaxBearing]
    /\ failFirst = 0
    /\ pc = "start"

\* degrees_to_compass(degrees), called on its own
DegreesToCompass ==
    /\ op = "degrees_to_compass"
    /\ pc = "start"
    /\ result' = degrees_to_compass(arg.degrees)
    /\ outcome' = Returned
    /\ pc' = "done"
    /\ UNCHANGED <<retryVars, data, envVars, logVars, printed>>

NextCompass == DegreesToCompass

SpecCompass == InitCompass /\ [][NextCompass]_vars

-----------------------------------------------------------------------------
(* Claims about the compass conversion (SpecCompass) *)

Abs(x) == IF x < 0 THEN -x ELSE x
\* the integers a bearing of the model can round to
Sectors == (-(MaxBearing \div 225) - 1)..((MaxBearing \div 225) + 1)

\* C11: for every bearing d (0, 360, above 360 and negative included)
\* degrees_to_compass returns one of the 16 labels, namely the label at index
\* k mod 16 of N, NNE, ..., NNW for the integer k nearest to d / 22.5, so a
\* full turn more or less gives the same label; 0 -> N, 22.5 -> NNE, 45 -> NE,
\* 90 -> E, 180 -> S, 225 -> SW, 270 -> W, 359.9 -> N, 360 -> N.
C11_CompassLabelOfNearestSector ==
    (op = "degrees_to_compass" /\ pc = "done") =>
      LET d == arg.degrees IN
        /\ outcome = Returned
        /\ result \in {"N", "NNE", "NE", "ENE", "E", "ESE", "SE", "SSE",
                       "S", "SSW", "SW", "WSW", "W", "WNW", "NW", "NNW"}
        /\ \E k \in Sectors :
              /\ 2 * Abs(d - 225 * k) <= 225
              /\ result = <<"N", "NNE", "NE", "ENE", "E", "ESE", "SE", "SSE",
                            "S", "SSW", "SW", "WSW", "W", "WNW", "NW", "NNW">>[(k % 16) + 1]
        /\ (d % 3600 = 0 => result = "N")
        /\ (d % 3600 = 225 => result = "NNE")
        /\ (d % 3600 = 450 => result = "NE")
        /\ (d % 3600 = 900 => result = "E")
        /\ (d % 3600 = 1800 => result = "S")
        /\ (d % 3600 = 2250 => result = "SW")
        /\ (d % 3600 = 2700 => result = "W")
        /\ (d % 3600 = 3599 => result = "N")

C11_Witness ==
    /\ op = "degrees_to_compass" /\ pc = "done"
    /\ arg.degrees = -225 /\ result = "NNW"

-----------------------------------------------------------------------------
(* cli.py: the alerts of the multi-day path of cmd_run_once *)

\* _fmt_day(day['date']) as a text part
FmtDay(d) == [k |-> "day", d |-> d]

\* f"Rain probability {day['rain_probability']}% exceeds threshold of {...}%"
DailyRainMessage(day, a) ==
    <<Lit("Rain probability "), Num(day.rain_probability),
      Lit("% exceeds threshold of "), Num(a.rain_probability_threshold), Lit("%")>>

\* f"Wind {day['wind_max']:.0f} km/h exceeds threshold of {...} km/h"
DailyWindMessage(day, a) ==
    <<Lit("Wind "), Num(Val(day.wind_max)),
      Lit(" km/h exceeds threshold of "), Num(a.wind_speed_threshold), Lit(" km/h")>>

\* f"Min temperature {day['temp_min']} C below threshold of {...} C"
DailyTempMessage(day, a) ==
    <<Lit("Min temperature "), Num(Val(day.temp_min)),
      Lit(" C below threshold of "), Num(a.temperature_min), Lit(" C")>>

\* `day["wind_max"] >= ...` and `day["temp_min"] < ...` compare the record's
\* value as it is: on None the comparison raises TypeError
DayRaises(day) == day.wind_max = None \/ day.temp_min = None

\* day_alerts of one day whose comparisons do not raise
DayAlerts(day, a) ==
    ((IF day.rain_probability >= a.rain_probability_threshold
        THEN <<DailyRainMessage(day, a)>> ELSE <<>>)
     \o (IF Val(day.wind_max) >= a.wind_speed_threshold
           THEN <<DailyWindMessage(day, a)>> ELSE <<>>))
     \o (IF Val(day.temp_min) < a.temperature_min
           THEN <<DailyTempMessage(day, a)>> ELSE <<>>)

\* print(f"<warning sign>  {_fmt_day(day['date'])}: {alert}") for each alert
\* of the day
DayLines(day, alerts) ==
    [i \in 1..Len(alerts) |-> <<Lit("(warning sign)  "), FmtDay(day.date), Lit(": ")>> \o alerts[i]]

RECURSIVE Flatten(_)
Flatten(seqs) == IF seqs = <<>> THEN <<>> ELSE Head(seqs) \o Flatten(Tail(seqs))

\* `for day in daily:` up to the first day whose comparison raises: the
\* alerts of each day evaluated, the lines printed, and how the loop ends
EvaluateDailyWindow(daily, a) ==
    LET bad == {i \in 1..Len(daily) : DayRaises(daily[i])}
        stop == IF bad = {} THEN Len(daily) + 1
                ELSE CHOOSE i \in bad : \A j \in bad : i <= j
        alerts == [i \in 1..(stop - 1) |-> DayAlerts(daily[i], a)]
    IN [alerts |-> alerts,
        printed |-> Flatten([i \in 1..(stop - 1) |-> DayLines(daily[i], alerts[i])]),
        outcome |-> IF bad = {} THEN Returned
                    ELSE Raised("TypeError",
                                <<Lit("'>=' or '<' not supported between instances of 'NoneType' and 'int'")>>,
                                NoError)]

-----------------------------------------------------------------------------
(* The rule evaluator as a specification *)

\* the hours the rules are run on
RuleRows ==
    {HourlyBase,
     [HourlyBase EXCEPT !.temperature_2m = None, !.precipitation_probability = None],
     [HourlyBase EXCEPT !.apparent_temperature = None, !.windspeed_10m = None],
     [HourlyBase EXCEPT !.temperature_2m = Some(4), !.apparent_temperature = Some(1)],
     [HourlyBase EXCEPT !.precipitation_probability = Some(0), !.windspeed_10m = Some(30)]}

\* the records fetch_forecast builds from a grid of these hours
ForecastOf(rows) == [i \in 1..Len(rows) |-> HourlyRecord(HourlyGrid(rows), i)]
Forecasts == {ForecastOf(rows) : rows \in SeqsUpTo(RuleRows, MaxForecast)}

\* the records fetch_daily_forecast builds
DailyWindows == {ParseDailyPayload(p).result : p \in {q \in DailyPayloads : q.has}}

RainThresholds == {0, 60, 61}
Lookaheads == (-1)..(MaxForecast + 1)
WindThresholds == {0, 30, 31}
TemperatureMins == {4, 10, 11}
FeelsLikeMins == {1, 9, 10}

\* the [alerts] table of config.toml
AlertsConfigs ==
    [rain_probability_threshold : {60, 61}, lookahead_hours : {-1, 2},
     wind_speed_threshold : {5, 6}, temperature_min : {10, 11},
     feels_like_min : {9, 10}]
DailyAlertsConfigs ==
    [rain_probability_threshold : {0, 20, 21}, lookahead_hours : {2},
     wind_speed_threshold : {10, 11}, temperature_min : {5, 6},
     feels_like_min : {2}]

InitRules ==
    /\ InitEnv({<<>>}, {"ok"})
    /\ now = 0
    /\ failFirst = 0
    /\ pc = "start"
    /\ \/ /\ op = "check_rain"
          /\ arg \in [forecast : Forecasts, threshold : RainThresholds,
                       lookahead_hours : Lookaheads]
       \/ /\ op = "check_wind"
          /\ arg \in [forecast : Forecasts, threshold : WindThresholds]
       \/ /\ op = "check_temperature"
          /\ arg \in [forecast : Forecasts, min_temp : TemperatureMins]
       \/ /\ op = "check_feels_like"
          /\ arg \in [forecast : Forecasts, min_feels_like : FeelsLikeMins]
       \/ /\ op = "evaluate_rules"
          /\ arg \in [forecast : Forecasts, config : [alerts : AlertsConfigs]]
       \/ /\ op = "daily_alerts"
          /\ arg \in [daily : DailyWindows, config : [alerts : DailyAlertsConfigs]]

\* a function of rules.py called on its own: it returns value
ReturnValue(v) ==
    /\ pc = "start"
    /\ result' = v
    /\ outcome' = Returned
    /\ pc' = "done"
    /\ UNCHANGED <<retryVars, data, envVars, logVars, printed>>

CheckRain ==
    /\ op = "check_rain"
    /\ ReturnValue(check_rain(arg.forecast, arg.threshold, arg.lookahead_hours))

CheckWind ==
    /\ op = "check_wind"
    /\ ReturnValue(check_wind(arg.forecast, arg.threshold))

CheckTemperature ==
    /\ op = "check_temperature"
    /\ ReturnValue(check_temperature(arg.forecast, arg.min_temp))

CheckFeelsLike ==
    /\ op = "check_feels_like"
    /\ ReturnValue(check_feels_like(arg.forecast, arg.min_feels_like))

EvaluateRules ==
    /\ op = "evaluate_rules"
    /\ ReturnValue(evaluate_rules(arg.forecast, arg.config))

\* cmd_run_once from `alerts_config = config["alerts"]` of the multi-day path
\* to its return: the alerts of each day, printed as they are found, then the
\* closing line and the status record.  A TypeError leaves cmd_run_once (its
\* handler catches RuntimeError only), nothing more is printed or recorded.
DailyAlerts ==
    /\ op = "daily_alerts"
    /\ pc = "start"
    /\ LET r == EvaluateDailyWindow(arg.daily, arg.config.alerts)
           any_alerts == r.printed # <<>>
       IN /\ result' = r.alerts
          /\ outcome' = r.outcome
          /\ IF r.outcome = Returned
               THEN /\ printed' = (printed \o r.printed)
                                    \o (IF any_alerts THEN <<>>
                                        ELSE << <<Lit("(check mark) No alerts in forecast window.")>> >>)
                    /\ statusLog' = write_last_run(statusLog, now, "OK",
                                        IF any_alerts THEN "Alerts in window"
                                        ELSE "No alerts in window", fsMode)
               ELSE /\ printed' = printed \o r.printed
                    /\ UNCHANGED statusLog
    /\ pc' = "done"
    /\ UNCHANGED <<retryVars, data, envVars, errorLog, alertLog>>

NextRules ==
    \/ CheckRain
    \/ CheckWind
    \/ CheckTemperature
    \/ CheckFeelsLike
    \/ EvaluateRules
    \/ DailyAlerts

SpecRules == InitRules /\ [][NextRules]_vars

-----------------------------------------------------------------------------
(* Claims about the rule evaluator (SpecRules) *)

Least(S) == CHOOSE i \in S : \A j \in S : i <= j

\* C12: check_rain returns an alert if and only if one of the first
\* lookahead_hours entries (all of them when the forecast is shorter, none
\* when lookahead_hours is zero or negative) has a precipitation probability
\* (null read as 0) >= threshold; an entry at a 0-based index >=
\* lookahead_hours never causes the alert, whatever the integer
\* lookahead_hours is.
C12_RainWithinLookahead ==
    (op = "check_rain" /\ pc = "done") =>
      LET f == arg.forecast
          hits == {i \in 1..Len(f) :
                     /\ i <= arg.lookahead_hours
                     /\ OrZero(f[i].precipitation_probability) >= arg.threshold}
      IN /\ outcome = Returned
         /\ (result # None <=> hits # {})

\* C13: check_wind returns an alert if and only if the forecast is not empty
\* and the wind speed of entry 0 (null read as 0, as the code reads it) is >=
\* threshold, equality included; the alert reports that entry; no later entry
\* matters and an empty forecast gives no alert and no error.
C13_WindOfFirstEntryOnly ==
    (op = "check_wind" /\ pc = "done") =>
      LET f == arg.forecast IN
        /\ outcome = Returned
        /\ (f = <<>> => result = None)
        /\ (f # <<>> =>
              /\ (f[1].wind_speed # None =>
                    (result # None <=> Val(f[1].wind_speed) >= arg.threshold))
              /\ (f[1].wind_speed = None => (result # None <=> 0 >= arg.threshold))
              /\ (result # None =>
                    /\ Val(result)[1] = Lit("High wind: ")
                    /\ Val(result)[2] = Num(OrZero(f[1].wind_speed))
                    /\ Val(result)[4] = Num(f[1].time)))

C13_Witness ==
    /\ op = "check_wind" /\ pc = "done" /\ result # None
    /\ arg.forecast[1].wind_speed = Some(arg.threshold)
    /\ Len(arg.forecast) >= 2

\* the entries among the first 3 whose value of the field is a number
\* strictly below the minimum
ColdHits(f, field, minimum) ==
    {i \in 1..Len(f) : i <= 3 /\ f[i][field] # None /\ Val(f[i][field]) < minimum}

\* C14: check_temperature (field temperature, against min_temp) and
\* check_feels_like (field feels_like, against min_feels_like) return an alert
\* if and only if one of the first 3 entries has a value strictly below the
\* minimum; a value equal to the minimum and an entry at index >= 3 never
\* trigger; the alert reports the earliest triggering entry.
C14_ColdWithinThreeHoursStrict ==
    /\ (op = "check_temperature" /\ pc = "done") =>
          LET hits == ColdHits(arg.forecast, "temperature", arg.min_temp) IN
            /\ outcome = Returned
            /\ (result # None <=> hits # {})
            /\ (hits # {} =>
                  /\ Val(result)[1] = Lit("Cold temperature: ")
                  /\ Val(result)[2] = Num(Val(arg.forecast[Least(hits)].temperature))
                  /\ Val(result)[4] = Num(arg.forecast[Least(hits)].time))
    /\ (op = "check_feels_like" /\ pc = "done") =>
          LET hits == ColdHits(arg.forecast, "feels_like", arg.min_feels_like) IN
            /\ outcome = Returned
            /\ (result # None <=> hits # {})
            /\ (hits # {} =>
                  /\ Val(result)[1] = Lit("Feels very cold: ")
                  /\ Val(result)[2] = Num(Val(arg.forecast[Least(hits)].feels_like))
                  /\ Val(result)[4] = Num(arg.forecast[Least(hits)].time))

\* entry 0 is exactly at the minimum, entry 1 is null, entry 2 triggers and
\* entry 3 would trigger too
C14_Witness ==
    /\ op = "check_temperature" /\ pc = "done" /\ result # None
    /\ Len(arg.forecast) = 4
    /\ arg.forecast[1].temperature = Some(arg.min_temp)
    /\ arg.forecast[2].temperature = None
    /\ Val(result)[4] = Num(arg.forecast[3].time)

\* the entry of the forecast an hourly alert reports (the hours of a forecast
\* are distinct)
Reported(f, msg) == {i \in 1..Len(f) : Num(f[i].time) = msg[4]}

\* C15: a null in a compared field never triggers and never raises, whatever
\* the threshold: no hourly alert reports an entry whose compared field
\* (precipitation_probability, temperature, feels_like) is null, and over the
\* records of fetch_daily_forecast the daily evaluation ends normally, with no
\* rain, wind or min-temperature alert for a day whose rain_probability,
\* wind_max or temp_min came as null.
C15_NullNeverTriggersNorRaises ==
    /\ (op \in {"check_rain", "check_temperature", "check_feels_like"} /\ pc = "done") =>
          /\ outcome = Returned
          /\ (result # None =>
                \A i \in Reported(arg.forecast, Val(result)) :
                    /\ (op = "check_rain" => arg.forecast[i].precipitation_probability # None)
                    /\ (op = "check_temperature" => arg.forecast[i].temperature # None)
                    /\ (op = "check_feels_like" => arg.forecast[i].feels_like # None))
    /\ (op = "daily_alerts" /\ pc = "done") =>
          /\ outcome = Returned
          /\ Len(result) = Len(arg.daily)
          /\ \A i \in 1..Len(result) :
                /\ (arg.daily[i].wind_max = None =>
                      \A k \in 1..Len(result[i]) : result[i][k][1] # Lit("Wind "))
                /\ (arg.daily[i].temp_min = None =>
                      \A k \in 1..Len(result[i]) : result[i][k][1] # Lit("Min temperature "))

\* the position of a message in the fixed order of the checks
Rank(msg) ==
    CASE msg[1] = Lit("Rain likely: ") -> 1
      [] msg[1] = Lit("High wind: ") -> 2
      [] msg[1] = Lit("Cold temperature: ") -> 3
      [] msg[1] = Lit("Feels very cold: ") -> 4
      [] OTHER -> 0

\* C16: evaluate_rules returns exactly the messages of the checks that
\* triggered, in the order rain, wind, temperature, feels-like: as many
\* entries as checks triggered, each check's own message, none twice, the
\* empty list when none triggers (an empty forecast included), and 4 entries
\* in that order when all four trigger.
C16_TriggeredMessagesInFixedOrder ==
    (op = "evaluate_rules" /\ pc = "done") =>
      LET a == arg.config.alerts
          f == arg.forecast
          checks == <<check_rain(f, a.rain_probability_threshold, a.lookahead_hours),
                      check_wind(f, a.wind_speed_threshold),
                      check_temperature(f, a.temperature_min),
                      check_feels_like(f, a.feels_like_min)>>
          triggered == {c \in 1..4 : checks[c] # None}
      IN /\ outcome = Returned
         /\ Len(result) = Cardinality(triggered)
         /\ \A i \in 1..Len(result) :
               /\ Rank(result[i]) \in triggered
               /\ result[i] = Val(checks[Rank(result[i])])
         /\ \A i, j \in 1..Len(result) : i < j => Rank(result[i]) < Rank(result[j])
         /\ (f = <<>> => result = <<>>)
         /\ (triggered = 1..4 =>
               [i \in 1..Len(result) |-> Rank(result[i])] = <<1, 2, 3, 4>>)

C16_Witness ==
    /\ op = "evaluate_rules" /\ pc = "done"
    /\ Len(result) = 4
    /\ Rank(result[1]) = 1 /\ Rank(result[4]) = 4

\* the alerts of a day that start with the given text
AlertsOf(alerts, text) == {k \in 1..Len(alerts) : alerts[k][1] = Lit(text)}

\* C17: the daily evaluation gives, for every day of the window, a rain
\* alert iff rain_probability >= the rain threshold, a wind alert iff wind_max
\* >= the wind threshold and a min-temperature alert iff temp_min < the
\* minimum (a null value does not trigger); the alerts of a day depend on
\* that day's record and the config only, never on another day of the window.
C17_DailyAlertsPerDay ==
    (op = "daily_alerts" /\ pc = "done") =>
      LET a == arg.config.alerts
          daily == arg.daily
      IN /\ outcome = Returned
         /\ Len(result) = Len(daily)
         /\ \A i \in 1..Len(result) :
               /\ (AlertsOf(result[i], "Rain probability ") # {}
                     <=> daily[i].rain_probability >= a.rain_probability_threshold)
               /\ (AlertsOf(result[i], "Wind ") # {}
                     <=> (daily[i].wind_max # None
                          /\ Val(daily[i].wind_max) >= a.wind_speed_threshold))
               /\ (AlertsOf(result[i], "Min temperature ") # {}
                     <=> (daily[i].temp_min # None
                          /\ Val(daily[i].temp_min) < a.temperature_min))
         /\ \A i, j \in 1..Len(result) : daily[i] = daily[j] => result[i] = result[j]

-----------------------------------------------------------------------------
(* history.py *)

\* datetime.date
Date(y, m, d) == [year |-> y, month |-> m, day |-> d]

IsLeap(y) == y % 4 = 0 /\ (y % 100 # 0 \/ y % 400 = 0)

DaysInMonth(y, m) ==
    IF m = 2 THEN (IF IsLeap(y) THEN 29 ELSE 28)
    ELSE IF m \in {4, 6, 9, 11} THEN 30 ELSE 31

\* the (year, month, day) triples date() accepts
ValidDate(d) ==
    /\ d.year >= 1
    /\ d.month \in 1..12
    /\ d.day \in 1..DaysInMonth(d.year, d.month)

\* d - timedelta(days=1)
DayBefore(d) ==
    IF d.day > 1 THEN Date(d.year, d.month, d.day - 1)
    ELSE IF d.month > 1 THEN Date(d.year, d.month - 1, DaysInMonth(d.year, d.month - 1))
    ELSE Date(d.year - 1, 12, 31)

\* a < b on dates
DateBefore(a, b) ==
    \/ a.year < b.year
    \/ a.year = b.year /\ a.month < b.month
    \/ a.year = b.year /\ a.month = b.month /\ a.day < b.day

\* date_range_for_years(years) on the day `today`: end.replace(year=...)
\* raises ValueError when the year has no such day
date_range_for_years(today, years) ==
    LET end == DayBefore(today)
        start == Date(end.year - years, end.month, end.day)
    IN IF ValidDate(start)
         THEN [outcome |-> Returned, result |-> [start |-> start, end |-> end]]
         ELSE [outcome |-> Raised("ValueError", <<Lit("day is out of range for month")>>, NoError),
               result |-> 0]

\* the string 'YYYY-MM-DD' of the provider
IsoDate(y, m, d) == [k |-> "iso", year |-> y, month |-> m, day |-> d]
\* date.fromisoformat(date_str)
fromisoformat(date_str) == Date(date_str.year, date_str.month, date_str.day)

\* `float(v) if v is not None else 0.0`: the number itself, 0.0 for None
\* (numbers are in tenths of the unit; float() of a number keeps its value)
Float(v) == IF v = None THEN 0 ELSE Val(v)

\* mutant of HistoricalRecord: temp_min is guarded by the null test of temp_max
HistoricalRecordWrongGuard(daily, i) ==
    [date |-> fromisoformat(daily.time[i]),
     temp_max |-> Float(daily.temperature_2m_max[i]),
     temp_min |-> IF daily.temperature_2m_max[i] = None THEN 0
                  ELSE Float(daily.temperature_2m_min[i]),
     temp_mean |-> Float(daily.temperature_2m_mean[i]),
     precipitation |-> Float(daily.precipitation_sum[i]),
     snowfall |-> Float(daily.snowfall_sum[i]),
     snow_depth_max |-> Float(daily.snow_depth_max[i]),
     wind_max |-> Float(daily.windspeed_10m_max[i])]

\* the dict appended for day i of the archive response
HistoricalRecord(daily, i) ==
    [date |-> fromisoformat(daily.time[i]),
     temp_max |-> Float(daily.temperature_2m_max[i]),
     temp_min |-> Float(daily.temperature_2m_min[i]),
     temp_mean |-> Float(daily.temperature_2m_mean[i]),
     precipitation |-> Float(daily.precipitation_sum[i]),
     snowfall |-> Float(daily.snowfall_sum[i]),
     snow_depth_max |-> Float(daily.snow_depth_max[i]),
     wind_max |-> Float(daily.windspeed_10m_max[i])]

\* _parse_daily(data)
_parse_daily(payload) ==
    IF ~payload.has
      THEN [outcome |-> Raised("KeyError", <<Lit("daily")>>, NoError), result |-> <<>>]
      ELSE [outcome |-> Returned,
            result |-> [i \in 1..Len(payload.daily.time) |-> HistoricalRecord(payload.daily, i)]]

\* One day of the archive grid; values in tenths of degrees C, mm, cm, km/h.
ArchiveBase ==
    [time |-> IsoDate(2023, 1, 1),
     temperature_2m_max |-> Some(40), temperature_2m_min |-> Some(-10),
     temperature_2m_mean |-> Some(15), precipitation_sum |-> Some(20),
     snowfall_sum |-> Some(10), snow_depth_max |-> Some(100),
     windspeed_10m_max |-> Some(250)]

ArchiveNulls ==
    [time |-> IsoDate(2023, 6, 1),
     temperature_2m_max |-> None, temperature_2m_min |-> None,
     temperature_2m_mean |-> None, precipitation_sum |-> None,
     snowfall_sum |-> None, snow_depth_max |-> None, windspeed_10m_max |-> None]

ArchiveRows ==
    {ArchiveBase, ArchiveNulls,
     [ArchiveBase EXCEPT !.time = IsoDate(2023, 1, 2)],
     [ArchiveBase EXCEPT !.temperature_2m_max = None],
     [ArchiveBase EXCEPT !.temperature_2m_min = None],
     [ArchiveBase EXCEPT !.temperature_2m_mean = None],
     [ArchiveBase EXCEPT !.precipitation_sum = None],
     [ArchiveBase EXCEPT !.snowfall_sum = None],
     [ArchiveBase EXCEPT !.snow_depth_max = None],
     [ArchiveBase EXCEPT !.windspeed_10m_max = None]}

ArchiveGrid(rows) ==
    [time |-> Column(rows, "time"),
     temperature_2m_max |-> Column(rows, "temperature_2m_max"),
     temperature_2m_min |-> Column(rows, "temperature_2m_min"),
     temperature_2m_mean |-> Column(rows, "temperature_2m_mean"),
     precipitation_sum |-> Column(rows, "precipitation_sum"),
     snowfall_sum |-> Column(rows, "snowfall_sum"),
     snow_depth_max |-> Column(rows, "snow_depth_max"),
     windspeed_10m_max |-> Column(rows, "windspeed_10m_max")]

\* {} | {"daily": {...}}
ArchivePayloads ==
    {[has |-> FALSE]}
    \cup {[has |-> TRUE, daily |-> ArchiveGrid(rows)] : rows \in SeqsUpTo(ArchiveRows, MaxDays)}

\* the days date.today() can be
ClockDays ==
    {d \in [year : FirstClockYear..(FirstClockYear + MaxClockYears - 1),
            month : 1..12, day : 1..31] : ValidDate(d)}

\* the state of a call that neither retries nor touches the logs
InitPure ==
    /\ InitRetryVars
    /\ fsMode = "ok"
    /\ errorLog = <<>>
    /\ statusLog = <<>>
    /\ alertLog = <<>>
    /\ logBefore = [error |-> errorLog, status |-> statusLog, alert |-> alertLog]
    /\ data = 0
    /\ printed = <<>>
    /\ outcome = Running
    /\ result = 0
    /\ failFirst = 0
    /\ pc = "start"

InitHistory ==
    /\ InitPure
    /\ \/ /\ op = "date_range_for_years"
          /\ now \in ClockDays
          /\ arg \in [years : 1..MaxYears]
       \/ /\ op = "_parse_daily"
          /\ now = 0
          /\ arg \in [data : ArchivePayloads]

\* a function called on its own that returns or raises
Finish(r) ==
    /\ pc = "start"
    /\ result' = r.result
    /\ outcome' = r.outcome
    /\ pc' = "done"
    /\ UNCHANGED <<retryVars, data, envVars, logVars, printed>>

DateRangeForYears ==
    /\ op = "date_range_for_years"
    /\ Finish(date_range_for_years(now, arg.years))

ParseArchive ==
    /\ op = "_parse_daily"
    /\ Finish(_parse_daily(arg.data))

NextHistory ==
    \/ DateRangeForYears
    \/ ParseArchive

SpecHistory == InitHistory /\ [][NextHistory]_vars

-----------------------------------------------------------------------------
(* Claims about the historical fetcher (SpecHistory) *)

\* C18: for every current date and every years >= 1 date_range_for_years
\* returns (start, end) without raising: end is yesterday (the day after end
\* is today), start has the month and the day of end and the year end.year -
\* years, and start is strictly before end.
C18_RangeEndsYesterdaySameDayYearsBack ==
    (op = "date_range_for_years" /\ pc = "done") =>
      /\ outcome = Returned
      /\ ValidDate(result.end)
      /\ DateBefore(result.end, now)
      /\ ~\E d \in ClockDays : DateBefore(result.end, d) /\ DateBefore(d, now)
      /\ result.start.month = result.end.month
      /\ result.start.day = result.end.day
      /\ result.start.year = result.end.year - arg.years
      /\ DateBefore(result.start, result.end)

NumericFields ==
    {"temp_max", "temp_min", "temp_mean", "precipitation", "snowfall",
     "snow_depth_max", "wind_max"}

\* the provider's member a field of the record is read from
MemberOf(field) ==
    CASE field = "temp_max" -> "temperature_2m_max"
      [] field = "temp_min" -> "temperature_2m_min"
      [] field = "temp_mean" -> "temperature_2m_mean"
      [] field = "precipitation" -> "precipitation_sum"
      [] field = "snowfall" -> "snowfall_sum"
      [] field = "snow_depth_max" -> "snow_depth_max"
      [] field = "wind_max" -> "windspeed_10m_max"

\* C19: the historical parse returns one record per date of the response, in
\* response order; each of the seven numeric fields is a number, 0.0 where the
\* provider sent null and the provider's value otherwise; a response with no
\* dates gives the empty sequence, not an error.
C19_OneRecordPerDateNullsAsZero ==
    (op = "_parse_daily" /\ pc = "done" /\ arg.data.has) =>
      LET daily == arg.data.daily IN
        /\ outcome = Returned
        /\ Len(result) = Len(daily.time)
        /\ (daily.time = <<>> => result = <<>>)
        /\ \A i \in 1..Len(result) :
              /\ result[i].date.year = daily.time[i].year
              /\ result[i].date.month = daily.time[i].month
              /\ result[i].date.day = daily.time[i].day
              /\ \A f \in NumericFields :
                    /\ result[i][f] \in Int
                    /\ (daily[MemberOf(f)][i] = None => result[i][f] = 0)
                    /\ (daily[MemberOf(f)][i] # None =>
                          result[i][f] = daily[MemberOf(f)][i][1])

C19_Witness ==
    /\ op = "_parse_daily" /\ pc = "done" /\ outcome = Returned
    /\ Len(result) = 3
    /\ arg.data.daily.temperature_2m_min[1] = None
    /\ arg.data.daily.temperature_2m_min[2] # None
    /\ arg.data.daily.time[1].month > arg.data.daily.time[3].month
    /\ result[1].temp_min = 0 /\ result[2].temp_min = -10

-----------------------------------------------------------------------------
(* analysis.py *)

\* the days of a year, in input order: by_year[year]
DaysOfYear(records, year) == SelectSeq(records, LAMBDA r : r.date.year = year)

RECURSIVE SortedSeq(_)
\* sorted(by_year): the years in ascending order
SortedSeq(S) ==
    IF S = {} THEN <<>>
    ELSE LET least == CHOOSE x \in S : \A y \in S : x <= y
         IN <<least>> \o SortedSeq(S \ {least})

RECURSIVE Sum(_, _)
\* sum(d[field] for d in days)
Sum(days, field) ==
    IF days = <<>> THEN 0 ELSE days[1][field] + Sum(Tail(days), field)

\* mutant of CountAbove: a day at the limit counts too
CountAtLeast(days, field, limit) ==
    Cardinality({i \in 1..Len(days) : days[i][field] >= limit})

\* sum(1 for d in days if d[field] > limit)
CountAbove(days, field, limit) ==
    Cardinality({i \in 1..Len(days) : days[i][field] > limit})

\* mutant of FirstMax: of equal values the last one wins
LastMax(days, field) ==
    CHOOSE i \in 1..Len(days) :
        /\ \A j \in 1..Len(days) : days[j][field] <= days[i][field]
        /\ \A j \in (i + 1)..Len(days) : days[j][field] < days[i][field]

\* max(days, key=lambda d: d[field]): the position of the first day that
\* attains the maximum
FirstMax(days, field) ==
    CHOOSE i \in 1..Len(days) :
        /\ \A j \in 1..Len(days) : days[j][field] <= days[i][field]
        /\ \A j \in 1..(i - 1) : days[j][field] < days[i][field]

\* mutant of FirstMin: of equal values the last one wins
LastMin(days, field) ==
    CHOOSE i \in 1..Len(days) :
        /\ \A j \in 1..Len(days) : days[j][field] >= days[i][field]
        /\ \A j \in (i + 1)..Len(days) : days[j][field] > days[i][field]

\* min(days, key=lambda d: d[field]): the first day that attains the minimum
FirstMin(days, field) ==
    CHOOSE i \in 1..Len(days) :
        /\ \A j \in 1..Len(days) : days[j][field] >= days[i][field]
        /\ \A j \in 1..(i - 1) : days[j][field] > days[i][field]

\* the summary of one year.  Daily values are in tenths; the averages,
\* round(sum / n, 2), are in hundredths, the totals, round(sum, 1), in tenths.
YearSummary(year, days) ==
    LET n == Len(days)
        hottest == days[FirstMax(days, "temp_max")]
        coldest == days[FirstMin(days, "temp_min")]
    IN [year |-> year,
        avg_temp_max |-> Round(10 * Sum(days, "temp_max"), n),
        avg_temp_min |-> Round(10 * Sum(days, "temp_min"), n),
        avg_temp_mean |-> Round(10 * Sum(days, "temp_mean"), n),
        total_precipitation |-> Round(Sum(days, "precipitation"), 1),
        total_snowfall |-> Round(Sum(days, "snowfall"), 1),
        max_snow_depth |-> Round(days[FirstMax(days, "snow_depth_max")].snow_depth_max, 1),
        snow_days |-> CountAbove(days, "snowfall", 0),
        rain_days |-> CountAbove(days, "precipitation", 10),
        max_temp |-> hottest.temp_max,
        min_temp |-> coldest.temp_min,
        hottest_date |-> hottest.date,
        coldest_date |-> coldest.date]

\* yearly_summary(records)
yearly_summary(records) ==
    LET years == SortedSeq({records[i].date.year : i \in 1..Len(records)})
    IN [k \in 1..Len(years) |-> YearSummary(years[k], DaysOfYear(records, years[k]))]

\* round(q, k) of a float q that stands for the quotient n / d: the nearest
\* integer of the scaled quotient.  A float carries a rounding error; when
\* the exact quotient lies halfway, the sign of the error (err) decides the
\* direction, and an exact float rounds half to even.
RoundFloat(n, d, err) ==
    IF 2 * (n % d) = d
    THEN IF err > 0 THEN (n \div d) + 1
         ELSE IF err < 0 THEN n \div d
         ELSE Round(n, d)
    ELSE Round(n, d)

\* a > b for a float a whose exact value is n / d and whose rounding error
\* has the sign err, against the limit l / d
FloatAbove(n, l, err) == n > l \/ (n = l /\ err > 0)

\* a < b likewise
FloatBelow(n, l, err) == n < l \/ (n = l /\ err < 0)

\* the rounding errors of the floats of one call of temperature_trend: the
\* signs of the errors of slope, slope * 10 and r_sq, and whether the sum of
\* squares of equal temperatures comes out above 0
FloatErrors == [slope : {-1, 0, 1}, decade : {-1, 0, 1}, r_sq : {-1, 0, 1}, flat : BOOLEAN]

\* the early return of temperature_trend
StableTrend == [slope |-> 0, slope_per_decade |-> 0, r_squared |-> 0, label |-> "stable"]

\* n * sum_x2 - sum_x ** 2
OlsDenom(yearly) ==
    LET n == Len(yearly)
        sum_x == Sum(yearly, "year")
        sum_x2 == Sum([i \in 1..n |-> [v |-> yearly[i].year * yearly[i].year]], "v")
    IN n * sum_x2 - sum_x * sum_x

\* n * sum_xy - sum_x * sum_y, the temperatures in hundredths
OlsNum(yearly) ==
    LET n == Len(yearly)
        sum_x == Sum(yearly, "year")
        sum_y == Sum(yearly, "avg_temp_mean")
        sum_xy == Sum([i \in 1..n |-> [v |-> yearly[i].year * yearly[i].avg_temp_mean]], "v")
    IN n * sum_xy - sum_x * sum_y

\* round(r_sq, 4) in ten-thousandths.  1 - ss_res / ss_tot of the fitted line
\* is num^2 / (denom * (n * sum_y2 - sum_y^2)); when all temperatures are
\* equal ss_tot is 0 or, by rounding of y_mean, a tiny positive number, and
\* r_sq is then the quotient of two rounding errors: some number far from
\* 0..1, of which the model keeps one.
RSquared(yearly, fp) ==
    LET n == Len(yearly)
        num == OlsNum(yearly)
        sum_y == Sum(yearly, "avg_temp_mean")
        sum_y2 == Sum([i \in 1..n |->
                        [v |-> yearly[i].avg_temp_mean * yearly[i].avg_temp_mean]], "v")
        tot == n * sum_y2 - sum_y * sum_y
        b == OlsDenom(yearly) * tot
        hundred == 100 * num * num
    IN IF tot = 0
       THEN IF fp.flat /\ n > 2 THEN -2000000000 ELSE 0
       ELSE 100 * (hundred \div b) + RoundFloat(100 * (hundred % b), b, fp.r_sq)

\* mutant of temperature_trend: the label is taken from slope_per_decade
temperature_trendFromDecade(yearly, fp) ==
    IF Len(yearly) < 2 \/ OlsDenom(yearly) = 0 THEN StableTrend
    ELSE LET num == OlsNum(yearly)
             denom == OlsDenom(yearly)
             per_decade == RoundFloat(10 * num, denom, fp.decade)
         IN [slope |-> RoundFloat(100 * num, denom, fp.slope),
             slope_per_decade |-> per_decade,
             r_squared |-> RSquared(yearly, fp),
             label |-> IF per_decade > 5 THEN "warming"
                       ELSE IF per_decade < -5 THEN "cooling"
                       ELSE "stable"]

\* temperature_trend(yearly): slope is num / (100 * denom) degrees per year;
\* slope > 0.005 is 2 * num > denom.  The result holds slope in
\* ten-thousandths, slope_per_decade in hundredths, r_squared in
\* ten-thousandths.
temperature_trend(yearly, fp) ==
    IF Len(yearly) < 2 \/ OlsDenom(yearly) = 0 THEN StableTrend
    ELSE LET num == OlsNum(yearly)
             denom == OlsDenom(yearly)
         IN [slope |-> RoundFloat(100 * num, denom, fp.slope),
             slope_per_decade |-> RoundFloat(10 * num, denom, fp.decade),
             r_squared |-> RSquared(yearly, fp),
             label |-> IF FloatAbove(2 * num, denom, fp.slope) THEN "warming"
                       ELSE IF FloatBelow(2 * num, -denom, fp.slope) THEN "cooling"
                       ELSE "stable"]

\* find_extremes(yearly); the empty dict is the empty function
find_extremes(yearly) ==
    IF yearly = <<>> THEN <<>>
    ELSE LET hottest == yearly[FirstMax(yearly, "max_temp")]
             coldest == yearly[FirstMin(yearly, "min_temp")]
             wettest == yearly[FirstMax(yearly, "total_precipitation")]
             driest == yearly[FirstMin(yearly, "total_precipitation")]
             snowiest == yearly[FirstMax(yearly, "total_snowfall")]
             least_sn == yearly[FirstMin(yearly, "total_snowfall")]
             most_days == yearly[FirstMax(yearly, "snow_days")]
         IN [hottest_year |-> hottest.year,
             hottest_year_max_temp |-> hottest.max_temp,
             hottest_date |-> hottest.hottest_date,
             coldest_year |-> coldest.year,
             coldest_year_min_temp |-> coldest.min_temp,
             coldest_date |-> coldest.coldest_date,
             wettest_year |-> wettest.year,
             wettest_year_precip |-> wettest.total_precipitation,
             driest_year |-> driest.year,
             driest_year_precip |-> driest.total_precipitation,
             snowiest_year |-> snowiest.year,
             snowiest_year_snowfall |-> snowiest.total_snowfall,
             snowiest_year_snow_days |-> snowiest.snow_days,
             least_snow_year |-> least_sn.year,
             least_snow_year_snowfall |-> least_sn.total_snowfall,
             least_snow_year_snow_days |-> least_sn.snow_days,
             most_snow_days_year |-> most_days.year,
             most_snow_days_count |-> most_days.snow_days]

\* the days the analysis is run on: three kinds of day on four dates
AnalysisRows ==
    {[time |-> date,
      temperature_2m_max |-> Some(kind[1]), temperature_2m_min |-> Some(kind[2]),
      temperature_2m_mean |-> Some(kind[3]), precipitation_sum |-> Some(kind[4]),
      snowfall_sum |-> Some(kind[5]), snow_depth_max |-> Some(kind[6]),
      windspeed_10m_max |-> Some(100)] :
        date \in {IsoDate(2023, 1, 15), IsoDate(2023, 7, 15), IsoDate(2024, 2, 29),
                  IsoDate(2022, 12, 31)},
        kind \in {<<150, 50, 100, 0, 0, 0>>, <<300, 50, 180, 25, 0, 0>>,
                  <<150, -20, 60, 10, 3, 12>>}}

\* the records fetch_historical builds of them
DailyRecords == {HistoricalRecord(ArchiveGrid(<<row>>), 1) : row \in AnalysisRows}

\* the yearly entries the trend is fitted to: year and mean temperature in
\* hundredths of a degree
TrendEntries == [year : {2000, 2019, 2021}, avg_temp_mean : {1000, 1001, 1010, 1011}]

\* the lists of them that do not descend in year: at most MaxYearly entries
TrendLists ==
    {l \in SeqsUpTo(TrendEntries, MaxYearly) :
        \A i \in 1..(Len(l) - 1) : l[i].year <= l[i + 1].year}

InitAnalysis ==
    /\ InitPure
    /\ now = 0
    /\ \/ /\ op = "yearly_summary"
          /\ arg \in [records : SeqsUpTo(DailyRecords, MaxDays)]
       \/ /\ op = "temperature_trend"
          /\ arg \in [yearly : TrendLists, fp : FloatErrors]
       \/ /\ op = "find_extremes"
          /\ arg \in {[yearly |-> yearly_summary(records)] :
                        records \in SeqsUpTo(DailyRecords, MaxDays)}

YearlySummary ==
    /\ op = "yearly_summary"
    /\ ReturnValue(yearly_summary(arg.records))

TemperatureTrend ==
    /\ op = "temperature_trend"
    /\ ReturnValue(temperature_trend(arg.yearly, arg.fp))

FindExtremes ==
    /\ op = "find_extremes"
    /\ ReturnValue(find_extremes(arg.yearly))

NextAnalysis == YearlySummary \/ TemperatureTrend \/ FindExtremes

SpecAnalysis == InitAnalysis /\ [][NextAnalysis]_vars

-----------------------------------------------------------------------------
(* Claims about the analysis (SpecAnalysis) *)

\* the positions of the year's days in the input
DaysIn(records, year) == {i \in 1..Len(records) : records[i].date.year = year}

\* C20: for every list of daily records, in any order, yearly_summary returns
\* one entry per distinct year of the input and none for another year, in
\* strictly ascending order of year (the empty list for the empty input);
\* max_temp and min_temp of an entry are the greatest temp_max and the least
\* temp_min of the year's days, hottest_date and coldest_date the dates of the
\* first day in input order that attains them.
C20_OneEntryPerYearAscending ==
    (op = "yearly_summary" /\ pc = "done") =>
      LET records == arg.records
          years == {records[i].date.year : i \in 1..Len(records)}
      IN /\ outcome = Returned
         /\ Len(result) = Cardinality(years)
         /\ {result[k].year : k \in 1..Len(result)} = years
         /\ \A k \in 1..(Len(result) - 1) : result[k].year < result[k + 1].year
         /\ (records = <<>> => result = <<>>)
         /\ \A k \in 1..Len(result) :
               LET days == DaysIn(records, result[k].year)
                   hot == {i \in days : records[i].temp_max = result[k].max_temp}
                   cold == {i \in days : records[i].temp_min = result[k].min_temp}
               IN /\ \A i \in days : records[i].temp_max <= result[k].max_temp
                  /\ \A i \in days : records[i].temp_min >= result[k].min_temp
                  /\ hot # {}
                  /\ cold # {}
                  /\ result[k].hottest_date = records[Least(hot)].date
                  /\ result[k].coldest_date = records[Least(cold)].date

\* three days out of year order, two of them in one year with the same
\* temp_max on different dates
C20_Witness ==
    /\ op = "yearly_summary" /\ pc = "done" /\ Len(arg.records) = 3 /\ Len(result) = 2
    /\ arg.records[1].date.year = 2023 /\ arg.records[2].date.year = 2022
    /\ arg.records[3].date.year = 2023
    /\ arg.records[1].temp_max = arg.records[3].temp_max
    /\ arg.records[1].date # arg.records[3].date
    /\ result[2].hottest_date = arg.records[1].date

\* C21: in every entry of yearly_summary, rain_days is the number of the
\* year's days with precipitation strictly above 1.0 mm (a day with exactly
\* 1.0 mm does not count) and snow_days the number of the year's days with
\* snowfall above 0; both lie between 0 and the number of the year's days in
\* the input.
C21_RainAndSnowDayCounts ==
    (op = "yearly_summary" /\ pc = "done") =>
      LET records == arg.records
      IN \A k \in 1..Len(result) :
            LET days == DaysIn(records, result[k].year)
                rainy == {i \in days : records[i].precipitation > 10}
                snowy == {i \in days : records[i].snowfall > 0}
            IN /\ result[k].rain_days = Cardinality(rainy)
               /\ result[k].snow_days = Cardinality(snowy)
               /\ result[k].rain_days \in 0..Cardinality(days)
               /\ result[k].snow_days \in 0..Cardinality(days)

\* a year whose only day has exactly 1.0 mm of precipitation and some snow: a
\* positive total and no rain day; and a year with a day of 2.5 mm and no snow
C21_Witness ==
    /\ op = "yearly_summary" /\ pc = "done" /\ Len(arg.records) = 2 /\ Len(result) = 2
    /\ arg.records[1].date.year = 2022 /\ arg.records[1].precipitation = 10
    /\ arg.records[1].snowfall > 0
    /\ arg.records[2].date.year = 2023 /\ arg.records[2].precipitation = 25
    /\ result[1].total_precipitation > 0 /\ result[1].rain_days = 0
    /\ result[1].snow_days = 1
    /\ result[2].rain_days = 1 /\ result[2].snow_days = 0

\* the sum over the entries of (n x - sum x)(n y - sum y): n^2 times the sum
\* of the products of the deviations from the means
Cov(yearly) ==
    LET n == Len(yearly)
        sx == Sum(yearly, "year")
        sy == Sum(yearly, "avg_temp_mean")
    IN Sum([i \in 1..n |-> [v |-> (n * yearly[i].year - sx)
                                    * (n * yearly[i].avg_temp_mean - sy)]], "v")

\* the sum of (n x - sum x)^2: n^2 times the sum of squared deviations of
\* the years
Var(yearly) ==
    LET n == Len(yearly)
        sx == Sum(yearly, "year")
    IN Sum([i \in 1..n |-> [v |-> (n * yearly[i].year - sx) * (n * yearly[i].year - sx)]],
           "v")

\* C22: temperature_trend returns without raising.  With fewer than 2 entries
\* or all years equal the result is slope 0, slope_per_decade 0, r_squared 0
\* and label "stable".  Otherwise the label follows from the raw slope of the
\* least-squares line of avg_temp_mean against year, Cov / (100 Var) degrees
\* per year as the floats hold it: "warming" iff it is above 0.005, "cooling"
\* iff it is below -0.005, "stable" otherwise.
C22_LabelFromRawSlope ==
    (op = "temperature_trend" /\ pc = "done") =>
      LET yearly == arg.yearly
          years == {yearly[i].year : i \in 1..Len(yearly)}
          warming == FloatAbove(2 * Cov(yearly), Var(yearly), arg.fp.slope)
          cooling == FloatBelow(2 * Cov(yearly), -Var(yearly), arg.fp.slope)
      IN /\ outcome = Returned
         /\ IF Len(yearly) < 2 \/ Cardinality(years) = 1
            THEN result = StableTrend
            ELSE /\ result.label = "warming" <=> warming
                 /\ result.label = "cooling" <=> cooling
                 /\ result.label = "stable" <=> (~warming /\ ~cooling)

\* two years 21 apart whose means differ by 0.11 degrees: the raw slope,
\* 0.0052, rounds to 0.05 degrees per decade and is labelled warming
C22_Witness ==
    /\ op = "temperature_trend" /\ pc = "done" /\ Len(arg.yearly) = 2
    /\ arg.yearly[1].year = 2000 /\ arg.yearly[2].year = 2021
    /\ arg.yearly[2].avg_temp_mean - arg.yearly[1].avg_temp_mean = 11
    /\ result.slope = 52 /\ result.slope_per_decade = 5
    /\ result.label = "warming"

\* the greatest and the least value of a field in the list
MaxOf(yearly, field) ==
    CHOOSE v \in {yearly[i][field] : i \in 1..Len(yearly)} :
        \A i \in 1..Len(yearly) : yearly[i][field] <= v

MinOf(yearly, field) ==
    CHOOSE v \in {yearly[i][field] : i \in 1..Len(yearly)} :
        \A i \in 1..Len(yearly) : yearly[i][field] >= v

\* the earliest year whose entry has the value v in the field
EarliestYearWith(yearly, field, v) ==
    Least({yearly[i].year : i \in {j \in 1..Len(yearly) : yearly[j][field] = v}})

\* C23: find_extremes of a year-ascending list returns, for the empty list,
\* the empty dict; otherwise, for each metric on its own, the earliest year
\* that attains the maximum (hottest: max_temp, wettest: total_precipitation,
\* snowiest: total_snowfall, most snow days: snow_days) or the minimum
\* (coldest: min_temp, driest: total_precipitation, least snow:
\* total_snowfall) of the metric, together with that value.
C23_EarliestExtremeYear ==
    (op = "find_extremes" /\ pc = "done") =>
      LET yearly == arg.yearly
          Hi(field) == MaxOf(yearly, field)
          Lo(field) == MinOf(yearly, field)
      IN /\ outcome = Returned
         /\ IF yearly = <<>> THEN result = <<>>
            ELSE /\ result.hottest_year = EarliestYearWith(yearly, "max_temp", Hi("max_temp"))
                 /\ result.hottest_year_max_temp = Hi("max_temp")
                 /\ result.coldest_year = EarliestYearWith(yearly, "min_temp", Lo("min_temp"))
                 /\ result.coldest_year_min_temp = Lo("min_temp")
                 /\ result.wettest_year = EarliestYearWith(yearly, "total_precipitation",
                                                           Hi("total_precipitation"))
                 /\ result.wettest_year_precip = Hi("total_precipitation")
                 /\ result.driest_year = EarliestYearWith(yearly, "total_precipitation",
                                                          Lo("total_precipitation"))
                 /\ result.driest_year_precip = Lo("total_precipitation")
                 /\ result.snowiest_year = EarliestYearWith(yearly, "total_snowfall",
                                                            Hi("total_snowfall"))
                 /\ result.snowiest_year_snowfall = Hi("total_snowfall")
                 /\ result.least_snow_year = EarliestYearWith(yearly, "total_snowfall",
                                                              Lo("total_snowfall"))
                 /\ result.least_snow_year_snowfall = Lo("total_snowfall")
                 /\ result.most_snow_days_year = EarliestYearWith(yearly, "snow_days",
                                                                  Hi("snow_days"))
                 /\ result.most_snow_days_count = Hi("snow_days")

\* three years, the first and the last equally dry and equally cold, the
\* middle one the hottest
C23_Witness ==
    /\ op = "find_extremes" /\ pc = "done" /\ Len(arg.yearly) = 3
    /\ arg.yearly[1].total_precipitation = arg.yearly[3].total_precipitation
    /\ arg.yearly[2].total_precipitation > arg.yearly[1].total_precipitation
    /\ arg.yearly[1].min_temp = arg.yearly[3].min_temp
    /\ arg.yearly[2].max_temp > arg.yearly[1].max_temp
    /\ result.hottest_year = arg.yearly[2].year
    /\ result.driest_year = arg.yearly[1].year
    /\ result.coldest_year = arg.yearly[1].year

-----------------------------------------------------------------------------
(* utils.py: the status log as text.  A text is a sequence of characters; of
   the characters only "|" and the newline, "nl", matter to the reader, "T"
   stands for the whole timestamp, which holds neither, and the statuses
   "OK" and "ERROR" are one character each.  The file is None when missing
   and Some(text) otherwise. *)

\* f"{timestamp}|{status}|{detail}\n"
StatusRecord(status, detail) == <<"T", "|">> \o status \o <<"|">> \o detail \o <<"nl">>

\* write_last_run(status, detail) on a working file system: the file is
\* created when missing and the record appended
AppendStatusRecord(file, status, detail) ==
    Some((IF file = None THEN <<>> ELSE Val(file)) \o StatusRecord(status, detail))

\* the positions of the character c in the text
Positions(text, c) == {i \in 1..Len(text) : text[i] = c}

\* buf[0].rstrip("\n") of deque(f, maxlen=1): the last line of a non-empty
\* text without its newline
LastLine(text) ==
    LET body == IF text[Len(text)] = "nl" THEN SubSeq(text, 1, Len(text) - 1) ELSE text
        breaks == Positions(body, "nl")
        start == IF breaks = {} THEN 1
                 ELSE (CHOOSE i \in breaks : \A j \in breaks : j <= i) + 1
    IN SubSeq(body, start, Len(body))

\* read_last_run(): None for a missing or empty file or a last line with
\* fewer than two "|", else the three parts of last.split("|", 2)
read_last_run(file) ==
    IF file = None \/ Val(file) = <<>> THEN None
    ELSE LET last == LastLine(Val(file))
             pipes == Positions(last, "|")
         IN IF Cardinality(pipes) < 2 THEN None
            ELSE LET p1 == Least(pipes)
                     p2 == Least(pipes \ {p1})
                 IN Some([timestamp |-> SubSeq(last, 1, p1 - 1),
                          status |-> SubSeq(last, p1 + 1, p2 - 1),
                          detail |-> SubSeq(last, p2 + 1, Len(last))])

\* the statuses the callers pass
Statuses == {<<"OK">>, <<"ERROR">>}

\* details: plain, empty, with a "|" as an unescaped message could hold, and
\* of two lines as the text of an exception can be
Details == {<<"a">>, <<>>, <<"a", "|", "b">>, <<"a", "nl", "b">>}

\* the file before the calls: missing, empty, or with one record
StatusFiles == {None, Some(<<>>), Some(StatusRecord(<<"OK">>, <<"b">>))}

InitStatusLog ==
    /\ InitRetryVars
    /\ op = "status_log"
    /\ arg = [status |-> <<>>, detail |-> <<>>]
    /\ now = 0
    /\ fsMode = "ok"
    /\ failFirst = 0
    /\ errorLog = <<>>
    /\ alertLog = <<>>
    /\ statusLog \in StatusFiles
    /\ logBefore = [error |-> errorLog, status |-> statusLog, alert |-> alertLog]
    /\ data = 0
    /\ printed = <<>>
    /\ outcome = Running
    /\ result = 0
    /\ pc = "start"

\* one call of write_last_run; data counts the calls
WriteStatus ==
    /\ op = "status_log"
    /\ data < MaxWrites
    /\ \E status \in Statuses, detail \in Details :
          /\ arg' = [status |-> status, detail |-> detail]
          /\ statusLog' = AppendStatusRecord(statusLog, status, detail)
    /\ logBefore' = [logBefore EXCEPT !.status = statusLog]
    /\ data' = data + 1
    /\ outcome' = Returned
    /\ pc' = "written"
    /\ UNCHANGED <<retryVars, op, now, fsMode, failFirst, errorLog, alertLog, printed, result>>

\* one call of read_last_run
ReadLastRun ==
    /\ op = "status_log"
    /\ pc # "read"
    /\ result' = read_last_run(statusLog)
    /\ outcome' = Returned
    /\ pc' = "read"
    /\ UNCHANGED <<retryVars, envVars, logVars, data, printed>>

NextStatusLog == WriteStatus \/ ReadLastRun

SpecStatusLog == InitStatusLog /\ [][NextStatusLog]_vars

-----------------------------------------------------------------------------
(* Claims about the status log (SpecStatusLog) *)

\* the text of a file, empty for the missing one
TextOf(file) == IF file = None THEN <<>> ELSE Val(file)

\* C24: a write keeps the text the file had and adds to its end; a read
\* after one or more writes returns the status and the detail of the last
\* write, whatever they are; a read of a missing or empty file returns None.
C24_ReadReturnsLastWritten ==
    /\ (op = "status_log" /\ pc = "written") =>
          /\ Len(TextOf(statusLog)) > Len(TextOf(logBefore.status))
          /\ SubSeq(TextOf(statusLog), 1, Len(TextOf(logBefore.status)))
               = TextOf(logBefore.status)
    /\ (op = "status_log" /\ pc = "read") =>
          IF data > 0
          THEN /\ result # None
               /\ Val(result).status = arg.status
               /\ Val(result).detail = arg.detail
          ELSE (statusLog = None \/ statusLog = Some(<<>>)) => result = None

-----------------------------------------------------------------------------
(* cli.py: cmd_run_once, from the loaded configuration on.  The provider
   calls are taken by their outcomes: geocode finds the place, finds nothing
   or exhausts its retries; the forecast call returns a grid, returns a
   payload without its member, or exhausts its retries. *)

\* str(e).replace("|", "-")
ReplacePipes(msg) == [i \in 1..Len(msg) |-> IF msg[i] = Lit("|") THEN Lit("-") ELSE msg[i]]

\* what a run did: the path it took, the days and hours it asked for, and
\* the list it passed to evaluate_rules (None: it passed none)
Did(path, days, fetch_hours, evaluated) ==
    [path |-> path, days |-> days, fetch_hours |-> fetch_hours, evaluated |-> evaluated]

\* how a run ends: the outcome, the status record written (None: none), the
\* message of the final with_retry error log (None: none), the message
\* logged by the notification (None: none) and what the run did
Ended(how, status, did) ==
    [outcome |-> how, status |-> status, error |-> None, notified |-> None, did |-> did]

\* raise SystemExit(1)
Exit1 == Raised("SystemExit", <<Num(1)>>, NoError)

\* an exception that leaves the try block of cmd_run_once: a RuntimeError is
\* recorded as ERROR and turned into SystemExit(1), any other leaves the
\* function as it is
Escapes(e, t, did) ==
    IF IsA(e.exc, "RuntimeError")
      THEN Ended(Exit1, Some([status |-> "ERROR", detail |-> ReplacePipes(e.msg)]), did)
      ELSE Ended(e, None, did)

\* with_retry after MAX_ATTEMPTS failures: the RuntimeError and the last error
Exhausted(label) ==
    [outcome |-> ExhaustedError(label, UnitError(MAX_ATTEMPTS)), result |-> <<>>,
     error |-> Some(Str(UnitError(MAX_ATTEMPTS)))]

\* the [alerts] section of the configuration of the run
RunAlerts(lookahead) ==
    [rain_probability_threshold |-> 50, lookahead_hours |-> lookahead,
     wind_speed_threshold |-> 30, temperature_min |-> 0, feels_like_min |-> 0]

\* f"{len(alerts)} alert(s) triggered" if alerts else "No alerts"
AlertsDetail(alerts) ==
    IF alerts # <<>> THEN <<Num(Len(alerts)), Lit(" alert(s) triggered")>>
    ELSE <<Lit("No alerts")>>

\* the multi-day path of cmd_run_once (window >= 2)
DailyPath(a, t) ==
    LET days == Min(a.window, 16)
        did == Did("daily", days, 0, None)
        fetched == IF a.api = "exhausted" THEN Exhausted(LabelOf("fetch_daily_forecast", a))
                   ELSE ParseDailyPayload(
                          IF a.api = "malformed" THEN [has |-> FALSE]
                          ELSE [has |-> TRUE, daily |-> DailyGrid([i \in 1..days |-> a.day])])
        daily == fetched.result
    IN IF fetched.outcome # Returned
         THEN [Escapes(fetched.outcome, t, did) EXCEPT
                 !.error = IF a.api = "exhausted" THEN fetched.error ELSE None]
       ELSE IF \E i \in 1..Len(daily) :
                  daily[i].temp_max = None \/ daily[i].temp_min = None
                    \/ daily[i].wind_max = None
         THEN \* render_daily_table: f"{d['temp_max']:>5.1f}" of a None
              Escapes(Raised("TypeError",
                             <<Lit("unsupported format string passed to NoneType.__format__")>>,
                             NoError), t, did)
       ELSE LET e == EvaluateDailyWindow(daily, RunAlerts(a.lookahead))
                any_alerts == \E i \in 1..Len(e.alerts) : e.alerts[i] # <<>>
            IN Ended(Returned,
                     Some([status |-> "OK",
                           detail |-> IF any_alerts THEN <<Lit("Alerts in window")>>
                                      ELSE <<Lit("No alerts in window")>>]),
                     did)

\* the hourly path of cmd_run_once (window < 2)
HourlyPath(a, t) ==
    LET config == [alerts |-> RunAlerts(a.lookahead)]
        lookahead == config.alerts.lookahead_hours
        fetch_hours == Max(a.window, lookahead + 1)
        target == CASE a.time = "early" -> Some(1)
                    [] a.time = "late" -> Some(Len(a.grid))
                    [] OTHER -> None
        fetched == IF a.api = "exhausted" THEN Exhausted(LabelOf("fetch_forecast", a))
                   ELSE _parse_hourly(IF a.api = "malformed" THEN [has |-> FALSE]
                                      ELSE [has |-> TRUE, hourly |-> HourlyGrid(a.grid)],
                                      fetch_hours, target, t)
        forecast == fetched.result
    IN IF fetched.outcome # Returned
         THEN IF IsA(fetched.outcome.exc, "RuntimeError")
                THEN \* except RuntimeError as e: print(str(e)); raise SystemExit(1)
                     [Ended(Exit1, None, Did("hourly", 0, fetch_hours, None)) EXCEPT
                        !.error = IF a.api = "exhausted" THEN fetched.error ELSE None]
                ELSE Escapes(fetched.outcome, t, Did("hourly", 0, fetch_hours, None))
       ELSE IF forecast = <<>>
         THEN Ended(Exit1, None, Did("hourly", 0, fetch_hours, None))
       ELSE IF a.window > 1
         THEN LET shown == SliceTo(forecast, a.window)
                  alerts == evaluate_rules(shown, config)
              IN Ended(Returned, Some([status |-> "OK", detail |-> AlertsDetail(alerts)]),
                       Did("hourly_table", 0, fetch_hours, Some(shown)))
       ELSE LET alerts == evaluate_rules(forecast, config)
            IN [Ended(Returned, Some([status |-> "OK", detail |-> AlertsDetail(alerts)]),
                      Did("single", 0, fetch_hours, Some(forecast))) EXCEPT
                  !.notified = IF a.notify
                                 THEN Some(<<Lit("Notification sent: "), Num(Len(alerts))>>)
                                 ELSE None]

\* cmd_run_once(args) with the configuration loaded, at clock t
cmd_run_once(a, t) ==
    LET located ==
          IF a.location = None THEN [outcome |-> Returned, error |-> None]
          ELSE IF a.geo = "exhausted" THEN Exhausted(LabelOf("geocode", a))
          ELSE [outcome |-> geocode(Val(a.location),
                                    IF a.geo = "found"
                                      THEN [has |-> TRUE, results |-> <<SecondResult>>]
                                      ELSE [has |-> TRUE, results |-> <<>>]).outcome,
                error |-> None]
    IN IF located.outcome # Returned
         THEN [Escapes(located.outcome, t, Did("none", 0, 0, None)) EXCEPT
                 !.error = located.error]
       ELSE IF a.time = "bad"
         THEN \* print("[error] Unrecognised --time format ..."); raise SystemExit(1)
              Ended(Exit1, None, Did("none", 0, 0, None))
       ELSE IF a.window >= 2 THEN DailyPath(a, t)
       ELSE HourlyPath(a, t)

\* the hourly grids of the provider: a rainy one, a calm one, one whose
\* first hour has no bearing, all of MaxGrid hours, and the empty one
RunGrids ==
    {[i \in 1..MaxGrid |-> HourlyBase],
     [i \in 1..MaxGrid |-> [HourlyBase EXCEPT !.precipitation_probability = Some(0)]],
     [i \in 1..MaxGrid |-> IF i = 1 THEN [HourlyBase EXCEPT !.winddirection_10m = None]
                           ELSE HourlyBase],
     <<>>}

\* the days of the provider: a quiet one, a rainy one, one without wind
RunDays ==
    {DailyBase, [DailyBase EXCEPT !.precipitation_probability_max = Some(80)],
     [DailyBase EXCEPT !.windspeed_10m_max = None]}

\* run-once is first run with --forecast-window 1
InitRunOnce ==
    /\ InitPure
    /\ now = 0
    /\ op = "run_once"
    /\ arg \in [location : {None, Some("Tokyo")}, geo : {"found", "not_found", "exhausted"},
                time : {"none", "early", "late", "bad"}, window : {1},
                lookahead : 1..MaxLookahead, api : {"ok", "malformed", "exhausted"},
                grid : RunGrids, day : RunDays, notify : BOOLEAN]
    /\ (arg.location = None => arg.geo = "found")
    /\ (arg.api # "ok" => arg.grid = <<>> /\ arg.day = DailyBase)

\* one run of cmd_run_once
RunOnce ==
    /\ op = "run_once"
    /\ pc = "start"
    /\ \E r \in {cmd_run_once(arg, now)} :
          /\ statusLog' = IF r.status = None THEN statusLog
                          ELSE write_last_run(statusLog, now, Val(r.status).status,
                                              Val(r.status).detail, fsMode)
          /\ errorLog' = IF r.error = None THEN errorLog
                         ELSE _log_error(errorLog, now, Val(r.error), fsMode)
          /\ alertLog' = IF r.notified = None THEN alertLog
                         ELSE _log_alert(alertLog, now, Val(r.notified), fsMode).log
          /\ outcome' = r.outcome
          /\ data' = r.did
    /\ pc' = "done"
    /\ UNCHANGED <<retryVars, envVars, printed, result>>

\* the command is run again, with the next forecast window
RunAgain ==
    /\ op = "run_once"
    /\ pc = "done"
    /\ arg.window < MaxWindow
    /\ arg' = [arg EXCEPT !.window = @ + 1]
    /\ logBefore' = [error |-> errorLog, status |-> statusLog, alert |-> alertLog]
    /\ outcome' = Running
    /\ data' = 0
    /\ pc' = "start"
    /\ UNCHANGED <<retryVars, op, now, fsMode, failFirst, logVars, printed, result>>

NextRunOnce == RunOnce \/ RunAgain

SpecRunOnce == InitRunOnce /\ [][NextRunOnce]_vars

\* The steps of NextRunOnce are those that change pc; one is possible while a
\* run is under way or a window is left.
Advance ==
    /\ pc = "start" \/ arg.window < MaxWindow
    /\ pc' = IF pc = "start" THEN "done" ELSE "start"

\* Each run ends, since every call of cmd_run_once is bounded by the
\* timeouts and the MAX_ATTEMPTS of with_retry, and the next one is started.
FairRunOnce == SpecRunOnce /\ WF_pc(Advance)

-----------------------------------------------------------------------------
(* Claims about run-once (SpecRunOnce, FairRunOnce) *)

\* C25: every run of run-once that has loaded its configuration appends
\* exactly one record to the status log before it ends: an OK record when
\* the run completes, an ERROR record when geocoding, the forecast fetch or
\* the forecast parse fails.
C25_OneStatusRecordPerRun ==
    (op = "run_once" /\ pc = "done") =>
      /\ Len(statusLog) = Len(logBefore.status) + 1
      /\ SubSeq(statusLog, 1, Len(logBefore.status)) = logBefore.status
      /\ statusLog[Len(statusLog)][3] = Lit(IF outcome = Returned THEN "OK" ELSE "ERROR")

\* the place is found, the time is in the grid and the provider answers with
\* a grid of MaxGrid complete hours
GoodRun ==
    /\ arg.geo = "found"
    /\ arg.time \in {"none", "early"}
    /\ arg.api = "ok"
    /\ Len(arg.grid) = MaxGrid
    /\ \A i \in 1..Len(arg.grid) : arg.grid[i].winddirection_10m # None

\* C27: some forecast window N in 2..24 takes run-once down the multi-hour
\* path: with a provider that answers, one of the runs with the windows
\* 1, 2, ... shows the hourly table and evaluates the rules over the first N
\* hourly entries.  A run on the daily path asks for min(N, 16) days.
C27_MultiHourPathReachable ==
    /\ (op = "run_once" /\ GoodRun) =>
          <>(/\ pc = "done"
             /\ arg.window \in 2..24
             /\ data.path = "hourly_table"
             /\ data.evaluated # None
             /\ Len(Val(data.evaluated)) <= arg.window)
    /\ []((op = "run_once" /\ pc = "done" /\ data.path = "daily") =>
            data.days = Min(arg.window, 16))

\* the hours the provider has from the start hour on
HoursFromStart == Len(arg.grid) - (IF arg.time = "early" THEN 1 ELSE 0)

\* C28: the list run-once passes to evaluate_rules holds, when the provider
\* has that many hours from the start hour on, at least lookahead_hours
\* entries and at least the 3 entries of the temperature and feels-like
\* windows.
C28_ForecastCoversRuleWindows ==
    (/\ op = "run_once" /\ pc = "done"
     /\ data.evaluated # None
     /\ HoursFromStart >= Max(arg.lookahead, TEMPERATURE_LOOKAHEAD_HOURS)) =>
      /\ Len(Val(data.evaluated)) >= arg.lookahead
      /\ Len(Val(data.evaluated)) >= TEMPERATURE_LOOKAHEAD_HOURS

-----------------------------------------------------------------------------
(* Configuration: config.py, and the keys the later steps read *)

\* A configuration is modelled by the keys it holds: the sections, the keys
\* of [location], [alerts] and [log], and the two switches of [notifications]
\* ("absent", "true" or "false").
LocationKeys == <<"latitude", "longitude", "name">>

AlertKeys == <<"rain_probability_threshold", "wind_speed_threshold",
               "temperature_min", "feels_like_min", "lookahead_hours">>

RequiredSections == <<"location", "alerts", "notifications", "log">>

\* the first key of reads that keys lacks, None when keys has them all
FirstMissing(reads, keys) ==
    LET missing == {i \in 1..Len(reads) : reads[i] \notin keys}
    IN  IF missing = {} THEN None
        ELSE Some(reads[CHOOSE i \in missing : \A j \in missing : i <= j])

\* _validate: the four sections, then the keys of [location] and of [alerts]
_validate(config) ==
    LET section == FirstMissing(RequiredSections, config.sections)
        location == FirstMissing(LocationKeys, config.location)
        alerts == FirstMissing(AlertKeys, config.alerts)
    IN  IF section # None
        THEN Raised("ValueError", <<Lit("Missing required config section: ["),
                                    Lit(Val(section)), Lit("]")>>, NoError)
        ELSE IF location # None
        THEN Raised("ValueError", <<Lit("Missing required config key: [location]."),
                                    Lit(Val(location))>>, NoError)
        ELSE IF alerts # None
        THEN Raised("ValueError", <<Lit("Missing required config key: [alerts]."),
                                    Lit(Val(alerts))>>, NoError)
        ELSE Returned

\* load_config: file is None when config.toml does not exist
load_config(file) ==
    IF file = None
    THEN [outcome |-> Raised("FileNotFoundError", <<Lit("Config file not found")>>, NoError),
          config |-> None]
    ELSE IF _validate(Val(file)).kind = "raise"
    THEN [outcome |-> _validate(Val(file)), config |-> None]
    ELSE [outcome |-> Returned, config |-> file]

\* the configuration the dashboard falls back to
mock_config ==
    [sections |-> {"alerts"},
     location |-> {},
     alerts |-> {"rain_probability_threshold", "wind_speed_threshold",
                 "feels_like_min", "lookahead_hours"},
     macos |-> "absent", log |-> "absent", path |-> FALSE]

\* the keys evaluate_rules reads, in the order it reads them
RuleReads == <<"rain_probability_threshold", "lookahead_hours",
               "wind_speed_threshold", "temperature_min", "feels_like_min">>

\* how evaluate_rules ends as far as the configuration decides it
evaluate_rules_keys(config) ==
    IF "alerts" \notin config.sections
    THEN Raised("KeyError", <<Lit("alerts")>>, NoError)
    ELSE IF FirstMissing(RuleReads, config.alerts) # None
    THEN Raised("KeyError", <<Lit(Val(FirstMissing(RuleReads, config.alerts)))>>, NoError)
    ELSE Returned

\* _log_alert reads config["log"]["path"]
_log_alert_keys(config) ==
    IF "log" \notin config.sections
    THEN Raised("KeyError", <<Lit("log")>>, NoError)
    ELSE IF ~config.path
    THEN Raised("KeyError", <<Lit("path")>>, NoError)
    ELSE Returned

\* send_weather_notification: nothing unless macos is on; after sending,
\* the alert log is written when log is on
send_weather_notification_keys(config) ==
    IF "notifications" \notin config.sections \/ config.macos # "true"
    THEN Returned
    ELSE IF config.log = "true"
    THEN _log_alert_keys(config)
    ELSE Returned

Switches == {"absent", "true", "false"}

\* the files config.toml can be: every choice of sections and keys
ConfigFiles ==
    [sections : SUBSET Range(RequiredSections),
     location : {Range(LocationKeys), Range(LocationKeys) \ {"name"}},
     alerts : SUBSET Range(AlertKeys),
     macos : Switches, log : Switches, path : BOOLEAN]

InitConfig ==
    /\ InitRetryVars
    /\ op \in {"run_once_config", "dashboard_config"}
    /\ arg \in {None} \cup {Some(c) : c \in ConfigFiles}
    /\ now = 0
    /\ fsMode = "ok"
    /\ failFirst = 0
    /\ errorLog = <<>>
    /\ statusLog = None
    /\ alertLog = <<>>
    /\ logBefore = [error |-> errorLog, status |-> statusLog, alert |-> alertLog]
    /\ data = None
    /\ printed = <<>>
    /\ outcome = Running
    /\ result = 0
    /\ pc = "start"

\* cmd_run_once loads the configuration outside its try block: a failure
\* leaves the command. The dashboard catches every failure and takes
\* mock_config.
LoadConfig ==
    /\ op \in {"run_once_config", "dashboard_config"}
    /\ pc = "start"
    /\ \E r \in {load_config(arg)} :
          IF r.outcome.kind = "raise" /\ op = "run_once_config"
          THEN /\ outcome' = r.outcome
               /\ pc' = "done"
               /\ data' = data
          ELSE /\ outcome' = Running
               /\ pc' = "loaded"
               /\ data' = IF r.outcome.kind = "raise" THEN Some(mock_config) ELSE r.config
    /\ UNCHANGED <<retryVars, envVars, logVars, printed, result>>

\* evaluate_rules on the loaded configuration
EvaluateWithConfig ==
    /\ op \in {"run_once_config", "dashboard_config"}
    /\ pc = "loaded"
    /\ \E r \in {evaluate_rules_keys(Val(data))} :
          IF r.kind = "raise"
          THEN outcome' = r /\ pc' = "done"
          ELSE /\ outcome' = IF op = "dashboard_config" THEN Returned ELSE Running
               /\ pc' = IF op = "dashboard_config" THEN "done" ELSE "evaluated"
    /\ UNCHANGED <<retryVars, envVars, logVars, data, printed, result>>

\* send_weather_notification of the run-once command
Notify ==
    /\ op = "run_once_config"
    /\ pc = "evaluated"
    /\ outcome' = send_weather_notification_keys(Val(data))
    /\ pc' = "done"
    /\ UNCHANGED <<retryVars, envVars, logVars, data, printed, result>>

NextConfig == LoadConfig \/ EvaluateWithConfig \/ Notify

SpecConfig == InitConfig /\ [][NextConfig]_vars

-----------------------------------------------------------------------------
(* Claims about the configuration (SpecConfig) *)

\* C30: with a configuration that load_config accepted, or with the
\* dashboard's fallback configuration, neither evaluate_rules nor the
\* notification and alert-logging step fails on a missing key.
C30_NoMissingConfigKey ==
    op \in {"run_once_config", "dashboard_config"}
        => ~(outcome.kind = "raise" /\ outcome.exc = "KeyError")

-----------------------------------------------------------------------------
(* The dashboard's session state: app.py *)

\* Session state holds location, hourly, daily, error and forecast_days.
\* Each stored value carries what it was fetched for: the place, the number
\* of the fetch_all call (call counts them), for daily the number of days
\* asked for and whether the forecast section fetched it.
SessionInit ==
    [location |-> None, hourly |-> None, daily |-> None, error |-> None,
     forecast_days |-> 7, call |-> 0]

\* how a provider call of the dashboard ends: geocode returns, exits with
\* SystemExit (no result), raises RuntimeError (retries exhausted) or raises
\* TypeError (a null name); a forecast call returns, raises RuntimeError or
\* raises KeyError (payload without its block)
GeocodeOutcomes == {"found", "not_found", "exhausted", "malformed"}

FetchOutcomes == {"ok", "exhausted", "malformed"}

DashboardPlaces == {"Tokyo", "Oslo"}

window_options == {1, 3, 7, 16}

\* fetch_all(place, days) on session state s
fetch_all(s, place, days, geo, hourly, daily) ==
    LET id == s.call + 1
        cleared == [s EXCEPT !.error = None, !.call = id]
        located == [cleared EXCEPT !.location = Some(place)]
        withHourly == [located EXCEPT !.hourly = Some([place |-> place, call |-> id])]
        withDaily == [withHourly EXCEPT
                         !.daily = Some([place |-> place, call |-> id,
                                         days |-> days, refetch |-> FALSE])]
    IN  IF geo = "not_found"
        THEN [session |-> [cleared EXCEPT !.error = Some("Location not found"),
                                          !.location = None],
              outcome |-> Returned]
        ELSE IF geo = "exhausted"
        THEN [session |-> [cleared EXCEPT !.error = Some("Network error")],
              outcome |-> Returned]
        ELSE IF geo = "malformed"
        THEN [session |-> cleared,
              outcome |-> Raised("TypeError", <<Lit("sequence item 0: expected str instance, NoneType found")>>, NoError)]
        ELSE IF hourly = "malformed"
        THEN [session |-> located,
              outcome |-> Raised("KeyError", <<Lit("hourly")>>, NoError)]
        ELSE IF hourly = "exhausted"
        THEN [session |-> [located EXCEPT !.error = Some("Weather API error"),
                                          !.hourly = None, !.daily = None],
              outcome |-> Returned]
        ELSE IF daily = "malformed"
        THEN [session |-> withHourly,
              outcome |-> Raised("KeyError", <<Lit("daily")>>, NoError)]
        ELSE IF daily = "exhausted"
        THEN [session |-> [withHourly EXCEPT !.error = Some("Weather API error"),
                                             !.hourly = None, !.daily = None],
              outcome |-> Returned]
        ELSE [session |-> withDaily, outcome |-> Returned]

\* the forecast section of the page: drawn when daily is present and error
\* is unset; it fetches again when the selected window differs from
\* forecast_days
forecast_section(s, selected_days, daily) ==
    IF s.daily = None \/ s.error # None
    THEN [session |-> s, outcome |-> Returned]
    ELSE IF selected_days = s.forecast_days \/ s.location = None
    THEN [session |-> s, outcome |-> Returned]
    ELSE LET recorded == [s EXCEPT !.forecast_days = selected_days]
         IN  IF daily = "exhausted"
             THEN [session |-> recorded, outcome |-> Returned]
             ELSE IF daily = "malformed"
             THEN [session |-> recorded,
                   outcome |-> Raised("KeyError", <<Lit("daily")>>, NoError)]
             ELSE [session |-> [recorded EXCEPT
                                   !.daily = Some([place |-> Val(s.location),
                                                   call |-> s.call,
                                                   days |-> selected_days,
                                                   refetch |-> TRUE])],
                   outcome |-> Returned]

InitDashboard ==
    /\ InitRetryVars
    /\ op = "dashboard"
    /\ arg = [place |-> "", selected_days |-> 7]
    /\ now = 0
    /\ fsMode = "ok"
    /\ failFirst = 0
    /\ errorLog = <<>>
    /\ statusLog = None
    /\ alertLog = <<>>
    /\ logBefore = [error |-> errorLog, status |-> statusLog, alert |-> alertLog]
    /\ data = SessionInit
    /\ printed = <<>>
    /\ outcome = Running
    /\ result = 0
    /\ pc = "idle"

\* a run of the page with "Get Weather" pressed: fetch_all with the place
\* typed and the stored forecast_days, then, unless fetch_all raised, the
\* forecast section
GetWeather ==
    /\ op = "dashboard"
    /\ data.call < MaxCalls
    /\ \E place \in DashboardPlaces, geo \in GeocodeOutcomes,
          hourly \in FetchOutcomes, daily \in FetchOutcomes,
          selected_days \in window_options, again \in FetchOutcomes :
          \E f \in {fetch_all(data, place, data.forecast_days, geo, hourly, daily)} :
             /\ arg' = [place |-> place, selected_days |-> selected_days]
             /\ IF f.outcome.kind = "raise"
                THEN data' = f.session /\ outcome' = f.outcome
                ELSE \E g \in {forecast_section(f.session, selected_days, again)} :
                        data' = g.session /\ outcome' = g.outcome
    /\ pc' = "fetched"
    /\ UNCHANGED <<retryVars, op, now, fsMode, failFirst, logBefore, logVars, printed, result>>

\* a run of the page without the button: the forecast section alone
SelectWindow ==
    /\ op = "dashboard"
    /\ \E selected_days \in window_options, again \in FetchOutcomes :
          \E g \in {forecast_section(data, selected_days, again)} :
             /\ arg' = [arg EXCEPT !.selected_days = selected_days]
             /\ data' = g.session
             /\ outcome' = g.outcome
    /\ pc' = "drawn"
    /\ UNCHANGED <<retryVars, op, now, fsMode, failFirst, logBefore, logVars, printed, result>>

NextDashboard == GetWeather \/ SelectWindow

SpecDashboard == InitDashboard /\ [][NextDashboard]_vars

-----------------------------------------------------------------------------
(* Claims about the dashboard's session state (SpecDashboard) *)

\* hourly or daily of session s was fetched for the stored location
ForStoredLocation(s, d) ==
    d # None => s.location # None /\ Val(d).place = Val(s.location)

\* hourly and daily of session s come from one fetch_all call, or daily from
\* a later fetch of the forecast section for the same place
SameFetch(s) ==
    (s.hourly # None /\ s.daily # None)
        => /\ Val(s.daily).place = Val(s.hourly).place
           /\ IF Val(s.daily).refetch
              THEN Val(s.daily).call >= Val(s.hourly).call
              ELSE Val(s.daily).call = Val(s.hourly).call

\* C29: whenever error is unset and hourly or daily is present, the data
\* was fetched for the stored location, hourly and daily come from the same
\* fetch_all call or a later re-fetch for that location, and daily holds
\* forecast_days days.
C29_SessionStateConsistent ==
    (op = "dashboard" /\ data.error = None
        /\ (data.hourly # None \/ data.daily # None))
        => /\ ForStoredLocation(data, data.hourly)
           /\ ForStoredLocation(data, data.daily)
           /\ SameFetch(data)
           /\ data.daily # None => Val(data.daily).days = data.forecast_days

-----------------------------------------------------------------------------
(* Requests and the history dashboard's cached loader: app/history.py *)

\* seconds an entry of load_data's cache is kept
CACHE_TTL == 86400

\* A result carries the number of the provider request that built it
\* (requests are counted in data.requests) and its kind: "data", "error"
\* (a returned error or a raised RuntimeError) or "exit" (SystemExit).
CacheKeys == [location : {"Tokyo", "Oslo"}, years : {1, 5}]

EmptyCache == [k \in CacheKeys |-> None]

\* geocode, fetch_forecast, fetch_daily_forecast and fetch_historical keep
\* nothing between calls: each call is one provider request
LibraryCall(requests, answer) ==
    [requests |-> requests + 1,
     result |-> [serial |-> requests + 1, kind |-> answer]]

\* the body of load_data: geocode, then fetch_historical and the analysis
\* passes; a place that is not found leaves through geocode's SystemExit
load_data_body(requests, geo, fetch) ==
    IF geo = "not_found"
    THEN [requests |-> requests + 1,
          result |-> [serial |-> requests + 1, kind |-> "exit"]]
    ELSE IF geo = "exhausted"
    THEN [requests |-> requests + 1,
          result |-> [serial |-> requests + 1, kind |-> "error"]]
    ELSE [requests |-> requests + 2,
          result |-> [serial |-> requests + 2,
                      kind |-> IF fetch = "ok" THEN "data" ELSE "error"]]

\* a cache whose entries never expire
CacheHitForever(cache, key, t) ==
    cache[key] # None

\* an entry is served until CACHE_TTL seconds after it was stored, whatever
\* it holds
CacheHit(cache, key, t) ==
    cache[key] # None /\ t < Val(cache[key]).at + CACHE_TTL

\* load_data(location, years) under st.cache_data(ttl=86400): a stored
\* return value is served without running the body; a return value of the
\* body is stored, a raised exception is not
load_data(cache, requests, key, t, geo, fetch) ==
    IF CacheHit(cache, key, t)
    THEN [cache |-> cache, requests |-> requests,
          result |-> Val(cache[key]).result]
    ELSE LET r == load_data_body(requests, geo, fetch)
         IN  [cache |-> IF r.result.kind = "exit" THEN cache
                        ELSE [cache EXCEPT ![key] = Some([result |-> r.result, at |-> t])],
              requests |-> r.requests,
              result |-> r.result]

InitCache ==
    /\ InitRetryVars
    /\ op = "requests"
    /\ arg = [via |-> "none", key |-> [location |-> "Tokyo", years |-> 1]]
    /\ now = 0
    /\ fsMode = "ok"
    /\ failFirst = 0
    /\ errorLog = <<>>
    /\ statusLog = None
    /\ alertLog = <<>>
    /\ logBefore = [error |-> errorLog, status |-> statusLog, alert |-> alertLog]
    /\ data = [requests |-> 0, before |-> 0, cache |-> EmptyCache]
    /\ printed = <<>>
    /\ outcome = Running
    /\ result = [serial |-> 0, kind |-> "none"]
    /\ pc = "idle"

\* a caller (CLI or forecast dashboard) calls one of the fetch functions
Request ==
    /\ op = "requests"
    /\ data.requests < MaxRequests
    /\ \E key \in CacheKeys, answer \in {"data", "error", "exit"} :
          \E r \in {LibraryCall(data.requests, answer)} :
             /\ arg' = [via |-> "library", key |-> key]
             /\ data' = [data EXCEPT !.requests = r.requests, !.before = data.requests]
             /\ result' = r.result
    /\ pc' = "answered"
    /\ UNCHANGED <<retryVars, op, now, fsMode, failFirst, logBefore, logVars, printed, outcome>>

\* the history dashboard calls load_data
LoadData ==
    /\ op = "requests"
    /\ data.requests < MaxRequests
    /\ \E key \in CacheKeys, geo \in {"found", "not_found", "exhausted"},
          fetch \in {"ok", "exhausted"} :
          \E r \in {load_data(data.cache, data.requests, key, now, geo, fetch)} :
             /\ arg' = [via |-> "load_data", key |-> key]
             /\ data' = [requests |-> r.requests, before |-> data.requests,
                         cache |-> r.cache]
             /\ result' = r.result
    /\ pc' = "answered"
    /\ UNCHANGED <<retryVars, op, now, fsMode, failFirst, logBefore, logVars, printed, outcome>>

\* half of CACHE_TTL passes
CacheTick ==
    /\ op = "requests"
    /\ now < MaxCacheTicks * (CACHE_TTL \div 2)
    /\ now' = now + CACHE_TTL \div 2
    /\ pc' = "idle"
    /\ UNCHANGED <<retryVars, op, arg, fsMode, failFirst, logBefore, logVars, data, printed, outcome, result>>

NextCache == Request \/ LoadData \/ CacheTick

SpecCache == InitCache /\ [][NextCache]_vars

-----------------------------------------------------------------------------
(* Claims about requests and caching (SpecCache) *)

\* the answer was built by a provider request made during the call
BuiltByThisCall == result.serial > data.before

====
